---- MODULE Spec2Model ----
(***************************************************************************)
(* Model of dronefly-core's taxon-list engine: the rank filter and sorter  *)
(* (menus/taxon_list.py), the list paginator (menus/source.py), the        *)
(* life-list formatter's page cache (formatters/generic.py) and the        *)
(* navigation commands of the command layer (commands/__init__.py).        *)
(*                                                                         *)
(* Strings that are only compared for order (taxon names) are modelled as  *)
(* naturals, ordered as the strings are.  Python's None is modelled by a   *)
(* has_* flag beside the value, or by 0 for an id.                         *)
(***************************************************************************)
EXTENDS Integers, Sequences, FiniteSets, TLC

VARIABLES
    ctx,        \* the session's Context: page_formatter (set or not), page, per_page, selected
    formatter,  \* the LifeListFormatter held by ctx.page_formatter: taxa, per_page, with_taxa, pages
    last,       \* the last command, its argument, its outcome and the Context it found
    source,     \* a ListPageSource: entries, per_page, _max_pages; taxon_list tells the subclass
    call,       \* the last call on the source: its name, argument and result
    taxon_list, \* the taxon records handed to filter_taxon_list
    filtered    \* the last filter invocation: its arguments and its result

vars == <<ctx, formatter, last, source, call, taxon_list, filtered>>

----------------------------------------------------------------------------
(* Bounds of the model *)

\* longest taxon list drawn as a filter input
MaxTaxa == 2
\* taxon names are 1..MaxName
MaxName == 2
\* observation counts are 0..MaxCount
MaxCount == 1
\* longest life list a session command receives
MaxLifeList == 3
\* ctx.per_page is 0..MaxPerPage
MaxPerPage == 2
\* page and entry arguments of `page N` and `sel K` are 0..MaxArg
MaxArg == 4
\* longest entries sequence of a ListPageSource
MaxEntries == 5
\* per_page of a ListPageSource is 1..MaxSourcePerPage
MaxSourcePerPage == 3
\* page numbers asked of a ListPageSource are -MaxPageNo..MaxPageNo
MaxPageNo == 4
MaxNodes == 3

----------------------------------------------------------------------------
(* Python helpers *)

Min(a, b) == IF a < b THEN a ELSE b
Max(a, b) == IF a > b THEN a ELSE b

\* divmod(a, b)[0] and math.ceil(a / b) for a >= 0, b > 0
FloorDiv(a, b) == a \div b
CeilDiv(a, b) == (a + b - 1) \div b

\* One bound of a slice s[a:b], as CPython's PySlice_AdjustIndices clamps it:
\* a negative bound counts from the end, then it is clamped to 0..len.
SliceIndex(i, len) ==
    IF i < 0 THEN Max(i + len, 0) ELSE Min(i, len)

\* s[a:b] of a list (step 1): never raises, empty when the bounds cross
PySlice(s, a, b) ==
    LET lo == SliceIndex(a, Len(s))
        hi == SliceIndex(b, Len(s))
    IN  IF lo < hi THEN SubSeq(s, lo + 1, hi) ELSE <<>>

\* s[i] of a list: a negative index counts from the end, outside -len..len-1 raises IndexError
PyIndexOk(s, i) == -Len(s) <= i /\ i < Len(s)
PyIndex(s, i) == IF i < 0 THEN s[i + Len(s) + 1] ELSE s[i + 1]

\* len(str(n)) for n >= 0
RECURSIVE NumDigits(_)
NumDigits(n) == IF n < 10 THEN 1 ELSE 1 + NumDigits(n \div 10)

Range(s) == {s[i] : i \in 1..Len(s)}

----------------------------------------------------------------------------
(* Rank tables.  The model keeps eight ranks of pyinaturalist's vocabulary, *)
(* finest first as in RANK_LEVELS, with their real levels.                  *)

Ranks == <<"subspecies", "species", "hybrid", "genus", "genushybrid",
           "family", "kingdom", "stateofmatter">>

RANK_LEVELS(rank) ==
    CASE rank = "subspecies" -> 5
      [] rank = "species" -> 10
      [] rank = "hybrid" -> 10
      [] rank = "genus" -> 20
      [] rank = "genushybrid" -> 20
      [] rank = "family" -> 30
      [] rank = "kingdom" -> 70
      [] rank = "stateofmatter" -> 100

COMMON_RANKS == <<"species", "genus", "family", "kingdom">>

ROOT_TAXON_ID == 48460

\* RANK_EQUIVALENTS: two of pyinaturalist's rank synonyms and the ranks they stand for
RankSynonyms == {"sp", "ssp"}
RANK_EQUIVALENTS(rank) ==
    CASE rank = "sp" -> "species"
      [] rank = "ssp" -> "subspecies"

\* RANK_KEYWORDS: the keys of RANK_LEVELS and of RANK_EQUIVALENTS
RANK_KEYWORDS == {Ranks[i] : i \in 1..Len(Ranks)} \cup RankSynonyms

\* RANKS_FOR_LEVEL[level]: every rank of that level, in RANK_LEVELS order
RANKS_FOR_LEVEL(level) ==
    SelectSeq(Ranks, LAMBDA r : RANK_LEVELS(r) = level)

\* included_ranks(per_rank)
included_ranks(per_rank) ==
    IF per_rank = "main" THEN COMMON_RANKS ELSE Ranks

\* list.index(x) (zero-based) of an x that is in the list
IndexOf(s, x) == (CHOOSE i \in 1..Len(s) : s[i] = x /\ \A j \in 1..(i - 1) : s[j] # x) - 1

----------------------------------------------------------------------------
(* Taxon records.  A record is                                              *)
(*   [id, name, rank, parent, count, has_desc, desc, obs]                   *)
(* parent is ancestor_ids[-1] (0 when ancestor_ids is empty), count the     *)
(* direct count, desc the descendant_obs_count (has_desc FALSE when the     *)
(* attribute is absent), obs the observations_count.                        *)

NoTaxon == [id |-> 0, name |-> 0, rank |-> "stateofmatter", parent |-> 0,
            count |-> 0, has_desc |-> FALSE, desc |-> 0, obs |-> 0]

\* getattr(taxon, "descendant_obs_count", None) is truthy
HasDescCount(t) == t.has_desc /\ t.desc # 0

----------------------------------------------------------------------------
(* Sort keys: a key is [sort_by, order], compared as Python compares the    *)
(* tuples the key functions return.                                         *)

\* a faulty variant of sort_rank_name_less whose order "desc" reverses the
\* whole key, the rank level with the name
sort_rank_name_less_reversed(order, a, b) ==
    LET ra == -RANK_LEVELS(a.rank)
        rb == -RANK_LEVELS(b.rank)
    IN  IF order = "desc"
        THEN rb < ra \/ (ra = rb /\ b.name < a.name)
        ELSE ra < rb \/ (ra = rb /\ a.name < b.name)

\* _sort_rank_name(order)(a) < _sort_rank_name(order)(b)
sort_rank_name_less(order, a, b) ==
    LET ra == -RANK_LEVELS(a.rank)
        rb == -RANK_LEVELS(b.rank)
    IN  \/ ra < rb
        \/ /\ ra = rb
           /\ IF order = "desc" THEN a.name > b.name ELSE a.name < b.name

\* a faulty variant of sort_obs_count that never reads the descendant count
sort_obs_count_obs_only(t) == t.obs

\* the obs_count _sort_rank_obs_name reads
sort_obs_count(t) == IF HasDescCount(t) THEN t.desc ELSE t.obs

\* _sort_rank_obs_name(order)(a) < _sort_rank_obs_name(order)(b)
sort_rank_obs_name_less(order, a, b) ==
    LET ra == -RANK_LEVELS(a.rank)
        rb == -RANK_LEVELS(b.rank)
        sgn == IF order = "asc" THEN 1 ELSE -1
        oa == sort_obs_count(a) * sgn
        ob == sort_obs_count(b) * sgn
    IN  \/ ra < rb
        \/ ra = rb /\ oa < ob
        \/ ra = rb /\ oa = ob /\ a.name < b.name

\* the sort key taxa_per_rank and filter_taxon_list both choose
sort_key_less(sort_by, order, a, b) ==
    IF sort_by = "obs" THEN sort_rank_obs_name_less(order, a, b)
    ELSE sort_rank_name_less(order, a, b)

\* list.sort(key=...) is stable: x goes before the first element it is less than
RECURSIVE InsertSorted(_, _, _, _)
InsertSorted(x, s, sort_by, order) ==
    IF s = <<>> THEN <<x>>
    ELSE IF sort_key_less(sort_by, order, x, Head(s)) THEN <<x>> \o s
         ELSE <<Head(s)>> \o InsertSorted(x, Tail(s), sort_by, order)

RECURSIVE SortByKey(_, _, _)
SortByKey(s, sort_by, order) ==
    IF s = <<>> THEN <<>>
    ELSE InsertSorted(s[Len(s)], SortByKey(SubSeq(s, 1, Len(s) - 1), sort_by, order),
                      sort_by, order)

----------------------------------------------------------------------------
(* Tree builder: pyinaturalist's make_tree and Taxon.flatten, as the spec's *)
(* section 4.1 describes them.  include_ranks is a sequence of ranks, or    *)
(* <<>> for None (every rank).  The root is exempt from the rank filter; a  *)
(* record of an excluded rank is left out and its descendants hang from     *)
(* their nearest kept ancestor.                                             *)

InList(L, id) == \E i \in 1..Len(L) : L[i].id = id
ById(L, id) == L[CHOOSE i \in 1..Len(L) : L[i].id = id]

\* records whose parent is not in the list
Unparented(L) == SelectSeq(L, LAMBDA t : t.parent = 0 \/ ~InList(L, t.parent))

RankKept(include_ranks, rank) ==
    include_ranks = <<>> \/ rank \in Range(include_ranks)

\* the tree's root: the record root_id names; else the only record without a
\* parent in the list; else a synthetic root with ROOT_TAXON_ID
TreeRootFound(L, root_id) == root_id = 0 \/ InList(L, root_id)
TreeRoot(L, root_id) ==
    IF root_id # 0 THEN ById(L, root_id)
    ELSE IF Len(Unparented(L)) = 1 THEN Unparented(L)[1]
    ELSE [NoTaxon EXCEPT !.id = ROOT_TAXON_ID]

\* the id of the node record t hangs from: its nearest ancestor that is the
\* root or of a kept rank; 0 when the chain leaves the list first
RECURSIVE TreeParent(_, _, _, _)
TreeParent(L, t, root, include_ranks) ==
    IF t.parent = 0 \/ ~InList(L, t.parent)
    THEN IF InList(L, root.id) THEN 0 ELSE root.id
    ELSE LET p == ById(L, t.parent)
         IN  IF p.id = root.id \/ RankKept(include_ranks, p.rank) THEN p.id
             ELSE TreeParent(L, p, root, include_ranks)

\* node.children, sorted by the sort key
TreeChildren(L, id, root, include_ranks, sort_by, order) ==
    SortByKey(
        SelectSeq(L, LAMBDA t : /\ t.id # root.id
                                /\ RankKept(include_ranks, t.rank)
                                /\ TreeParent(L, t, root, include_ranks) = id),
        sort_by, order)

\* Taxon.flatten: depth first, a node before its children; each node is given
\* its indent_level and ancestors (id and rank of the nodes on its path from
\* the root), whatever an earlier pass left in these attributes
RECURSIVE FlattenNode(_, _, _, _, _, _, _, _)
RECURSIVE FlattenAll(_, _, _, _, _, _, _, _)
FlattenNode(L, t, level, ancestors, root, include_ranks, sort_by, order) ==
    <<[indent_level |-> level, ancestors |-> ancestors] @@ t>>
    \o FlattenAll(L, TreeChildren(L, t.id, root, include_ranks, sort_by, order),
                  level + 1, Append(ancestors, [id |-> t.id, rank |-> t.rank]),
                  root, include_ranks, sort_by, order)
FlattenAll(L, ts, level, ancestors, root, include_ranks, sort_by, order) ==
    IF ts = <<>> THEN <<>>
    ELSE FlattenNode(L, Head(ts), level, ancestors, root, include_ranks, sort_by, order)
         \o FlattenAll(L, Tail(ts), level, ancestors, root, include_ranks, sort_by, order)

\* make_tree(taxon_list, include_ranks, root_id, sort_key).flatten(hide_root)
make_tree_flatten(L, include_ranks, root_id, sort_by, order, hide_root) ==
    LET root == TreeRoot(L, root_id)
        all == FlattenNode(L, root, 0, <<>>, root, include_ranks, sort_by, order)
    IN  IF hide_root THEN Tail(all) ELSE all

----------------------------------------------------------------------------
(* Rank filter: taxa_per_rank and filter_taxon_list of menus/taxon_list.py. *)
(* ranks_to_count is [kind |-> "list", ranks |-> <<...>>] for a list of     *)
(* ranks and [kind |-> "leaf" | "child" | "rank", ranks |-> <<rank>>] for a *)
(* string.                                                                  *)

\* include_ranks as taxa_per_rank hands it to make_tree (<<>> is None)
tpr_include_ranks(ranks_to_count) ==
    CASE ranks_to_count.kind = "list" -> ranks_to_count.ranks
      [] ranks_to_count.kind = "leaf" -> <<>>
      [] ranks_to_count.kind = "child" -> included_ranks("any")
      [] OTHER -> ranks_to_count.ranks

\* the root_taxon the "child" test compares with: the record root_taxon_id
\* names, defaulting to taxon_list[0]
tpr_root_taxon(L, root_taxon_id) ==
    IF root_taxon_id # 0 /\ InList(L, root_taxon_id) THEN ById(L, root_taxon_id)
    ELSE L[1]

\* the leaf test: only a record with a truthy descendant_obs_count is compared
leaf_included(taxon) ==
    IF HasDescCount(taxon) THEN taxon.count = taxon.desc ELSE TRUE

\* a faulty variant of child_included that accepts the root taxon anywhere on
\* the path above the taxon
child_included_any_depth(taxon, root_taxon) ==
    IF taxon.ancestors # <<>>
    THEN \E i \in 1..Len(taxon.ancestors) : taxon.ancestors[i].id = root_taxon.id
    ELSE taxon.parent # 0 /\ taxon.parent = root_taxon.id

\* the child test: the last of taxon.ancestors when the tree set any, else the
\* last of taxon.ancestor_ids, is the root taxon
child_included(taxon, root_taxon) ==
    IF taxon.ancestors # <<>>
    THEN taxon.ancestors[Len(taxon.ancestors)].id = root_taxon.id
    ELSE taxon.parent # 0 /\ taxon.parent = root_taxon.id

\* `included` of one flattened taxon
tpr_included(taxon, include_leaves, max_depth, root_taxon) ==
    IF include_leaves /\ HasDescCount(taxon) THEN leaf_included(taxon)
    ELSE IF max_depth = 1 THEN child_included(taxon, root_taxon)
    ELSE TRUE

\* list(taxa_per_rank(taxon_list, ranks_to_count, root_taxon_id, sort_by, order));
\* the caller has checked TreeRootFound
taxa_per_rank(L, ranks_to_count, root_taxon_id, sort_by, order) ==
    LET include_leaves == ranks_to_count.kind = "leaf"
        max_depth == IF ranks_to_count.kind = "child" THEN 1 ELSE 0
        include_ranks == tpr_include_ranks(ranks_to_count)
        tree == TreeRoot(L, root_taxon_id)
        root_taxon == IF max_depth = 1 THEN tpr_root_taxon(L, root_taxon_id) ELSE NoTaxon
        hide_root == tree.id = ROOT_TAXON_ID \/ Len(include_ranks) = 1
        flat == make_tree_flatten(L, include_ranks, root_taxon_id, sort_by, order, hide_root)
    IN  SelectSeq(flat, LAMBDA taxon : tpr_included(taxon, include_leaves, max_depth, root_taxon))

\* ranks_to_count of the "main" and "any" policies, narrowed by the query taxon
main_any_ranks(per_rank, taxon) ==
    LET ranks == included_ranks(per_rank)
    IN  IF taxon.id = 0 THEN ranks
        ELSE IF per_rank = "main" /\ taxon.rank \notin Range(ranks)
        THEN Append(SelectSeq(ranks, LAMBDA r : RANK_LEVELS(r) < RANK_LEVELS(taxon.rank)),
                    taxon.rank)
        ELSE SubSeq(ranks, 1, IndexOf(ranks, taxon.rank) + 1)

\* the arguments filter_taxon_list hands to taxa_per_rank
ftl_ranks_to_count(per_rank, taxon) ==
    CASE per_rank \in {"main", "any"} ->
            [kind |-> "list", ranks |-> main_any_ranks(per_rank, taxon)]
      [] per_rank \in {"leaf", "child"} -> [kind |-> per_rank, ranks |-> <<>>]
      [] OTHER -> [kind |-> "list", ranks |-> RANKS_FOR_LEVEL(RANK_LEVELS(per_rank))]

ftl_root_taxon_id(L, per_rank, taxon, root_taxon_id) ==
    IF per_rank = "child" /\ root_taxon_id = 0
    THEN IF taxon.id # 0 THEN taxon.id ELSE L[1].id
    ELSE root_taxon_id

\* the description of the included ranks (meta.ranks)
ftl_ranks(per_rank) ==
    CASE per_rank = "main" -> "main ranks"
      [] per_rank = "any" -> "ranks"
      [] per_rank = "leaf" -> "leaf taxa"
      [] per_rank = "child" -> "child taxa"
      [] OTHER -> per_rank

\* a faulty variant of ftl_indent that keeps the levels of the flattened tree
ftl_indent_raw(taxa, no_indent) ==
    IF taxa = <<>> THEN <<>> ELSE
    [i \in 1..Len(taxa) |->
        [taxa[i] EXCEPT !.indent_level = IF no_indent THEN 0 ELSE taxa[i].indent_level]]

\* the counting loop's indent adjustment
ftl_indent(taxa, no_indent) ==
    IF taxa = <<>> THEN <<>> ELSE
    [i \in 1..Len(taxa) |->
        [taxa[i] EXCEPT !.indent_level =
            IF no_indent THEN 0 ELSE taxa[i].indent_level - taxa[1].indent_level]]

\* a faulty variant of ftl_tot that notes each rank once instead of counting it
ftl_tot_presence(taxa) ==
    [r \in {taxa[i].rank : i \in 1..Len(taxa)} |-> 1]

\* tot: how many counted taxa have each rank
ftl_tot(taxa) ==
    [r \in {taxa[i].rank : i \in 1..Len(taxa)} |->
        Cardinality({i \in 1..Len(taxa) : taxa[i].rank = r})]

SetMax(S) == CHOOSE x \in S : \A y \in S : y <= x

ftl_count_digits(taxa) ==
    SetMax({1} \cup {NumDigits(IF HasDescCount(taxa[i]) THEN taxa[i].desc ELSE taxa[i].obs)
                     : i \in 1..Len(taxa)})

ftl_direct_digits(taxa) ==
    SetMax({1} \cup {NumDigits(taxa[i].count) : i \in {j \in 1..Len(taxa) : HasDescCount(taxa[j])}})

\* list.sort(key=lambda t: t.name), stable
RECURSIVE InsertByName(_, _)
InsertByName(x, s) ==
    IF s = <<>> THEN <<x>>
    ELSE IF x.name < Head(s).name THEN <<x>> \o s
         ELSE <<Head(s)>> \o InsertByName(x, Tail(s))

RECURSIVE SortByName(_)
SortByName(s) ==
    IF s = <<>> THEN <<>>
    ELSE InsertByName(s[Len(s)], SortByName(SubSeq(s, 1, Len(s) - 1)))

\* a faulty variant of ftl_sort that sorts by name alone
ftl_sort_name_only(counted_taxa, per_rank, sort_by, order) ==
    IF per_rank \in {"leaf", "child"} THEN SortByName(counted_taxa)
    ELSE counted_taxa

\* the post-filter sort, applied to the "leaf" and "child" results only
ftl_sort(counted_taxa, per_rank, sort_by, order) ==
    IF per_rank \in {"leaf", "child"} THEN SortByKey(counted_taxa, sort_by, order)
    ELSE counted_taxa

\* RANK_LEVELS[_rank] of the single-rank branch raises KeyError for a name
\* that is not a key of RANK_LEVELS; the other policies never read it
ftl_key_error(per_rank) ==
    /\ per_rank \notin {"main", "any", "leaf", "child"}
    /\ per_rank \notin {Ranks[i] : i \in 1..Len(Ranks)}

\* what filter_taxon_list leaves behind when it raises
ftl_raised(status) ==
    [status |-> status, taxa |-> <<>>, ranks |-> "", tot |-> <<>>,
     count_digits |-> 0, direct_digits |-> 0, taxon_count |-> 0]

\* filter_taxon_list(taxon_list, per_rank, taxon, root_taxon_id, sort_by, order):
\* status "key_error" stands for the KeyError of the single-rank branch, raised
\* before taxa_per_rank is called, and status "error" for the exception
\* make_tree raises for a root that is not in the list
filter_taxon_list(L, per_rank, taxon, root_taxon_id, sort_by, order) ==
    IF ftl_key_error(per_rank) THEN ftl_raised("key_error") ELSE
    LET rtc == ftl_ranks_to_count(per_rank, taxon)
        rid == ftl_root_taxon_id(L, per_rank, taxon, root_taxon_id)
    IN  IF ~TreeRootFound(L, rid)
        THEN ftl_raised("error")
        ELSE LET generated == taxa_per_rank(L, rtc, rid, sort_by, order)
                 counted == ftl_indent(generated, per_rank \notin {"main", "any"})
                 sorted == ftl_sort(counted, per_rank, sort_by, order)
             IN  [status |-> "ok", taxa |-> sorted, ranks |-> ftl_ranks(per_rank),
                  tot |-> ftl_tot(counted),
                  count_digits |-> ftl_count_digits(counted),
                  direct_digits |-> ftl_direct_digits(counted),
                  taxon_count |-> Len(sorted)]

----------------------------------------------------------------------------
(* The life-list filter of formatters/generic.py: taxa_per_rank and         *)
(* filter_life_list, over a life list whose records all carry both counts.  *)

\* subtree(t) of generic.taxa_per_rank
generic_subtree(t, root_taxon_id) ==
    \/ root_taxon_id = 0
    \/ root_taxon_id = t.id
    \/ \E i \in 1..Len(t.ancestors) : t.ancestors[i].id = root_taxon_id

\* include(t) of generic.taxa_per_rank; ranks_to_count is a list of ranks,
\* <<"leaf">> standing for the string "leaf" and is_list telling the two apart
generic_include(t, ranks_to_count, is_list, root_taxon_id) ==
    IF is_list THEN generic_subtree(t, root_taxon_id)
    ELSE IF ranks_to_count = <<"leaf">>
    THEN generic_subtree(t, root_taxon_id) /\ t.count = t.desc
    ELSE generic_subtree(t, root_taxon_id) /\ t.rank = ranks_to_count[1]

\* list(generic.taxa_per_rank(life_list, ranks_to_count, root_taxon_id))
generic_taxa_per_rank(L, ranks_to_count, is_list, root_taxon_id) ==
    LET include_ranks == IF ~is_list /\ ranks_to_count = <<"leaf">> THEN <<>>
                         ELSE ranks_to_count
        flat == make_tree_flatten(L, include_ranks, 0, "", "",
                                  TreeRoot(L, 0).id = ROOT_TAXON_ID)
    IN  SelectSeq(flat, LAMBDA t : generic_include(t, ranks_to_count, is_list, root_taxon_id))

\* filter_life_list(life_list, per_rank, taxon, root_taxon_id)
filter_life_list(L, per_rank, taxon, root_taxon_id) ==
    LET counted ==
            IF per_rank \in {"main", "any"}
            THEN generic_taxa_per_rank(L, main_any_ranks(per_rank, taxon), TRUE, root_taxon_id)
            ELSE generic_taxa_per_rank(L, <<per_rank>>, FALSE, root_taxon_id)
        sorted == IF per_rank = "leaf" THEN SortByName(counted) ELSE counted
    IN  [status |-> "ok", taxa |-> sorted, ranks |-> ftl_ranks(per_rank),
         tot |-> ftl_tot(counted),
         count_digits |-> SetMax({1} \cup {NumDigits(counted[i].desc) : i \in 1..Len(counted)}),
         direct_digits |-> SetMax({1} \cup {NumDigits(counted[i].count) : i \in 1..Len(counted)}),
         taxon_count |-> Len(sorted)]

----------------------------------------------------------------------------
(* LifeListFormatter of formatters/generic.py.  A formatter is              *)
(*   [taxa, per_page, with_taxa, per_rank, pages]                           *)
(* and a structured page [header, entries_header, entries, footer]: header  *)
(* is "" or "title", entries_header the ids named by the breadcrumb (<<>>   *)
(* for None), entries the ids of the page's taxa, footer whether the        *)
(* summary is present.                                                      *)

NoFormatter == [taxa |-> <<>>, per_page |-> 0, with_taxa |-> FALSE, per_rank |-> "",
                pages |-> <<>>]

\* LifeListFormatter.get_page_of_taxa(page)
get_page_of_taxa(f, page) ==
    LET page_start == IF f.per_page > 0 THEN page * f.per_page ELSE 0
        page_end == IF f.per_page > 0 THEN page_start + f.per_page ELSE Len(f.taxa) + 1
    IN  PySlice(f.taxa, page_start, page_end)

\* LifeListFormatter.last_page()
last_page(f) ==
    IF ~(f.with_taxa /\ f.per_page > 0 /\ f.taxa # <<>>) THEN 0
    ELSE CeilDiv(Len(f.taxa), f.per_page) - 1

\* format_page's indent_level(taxon)
fp_indent_level(f, taxon) ==
    IF f.per_rank \notin {"main", "any"} THEN 0
    ELSE taxon.indent_level - f.taxa[1].indent_level

\* make_page_header deletes a leading ROOT_TAXON_ID from the taxon's own ancestors list
header_ancestors(taxon) ==
    IF taxon.ancestors # <<>> /\ taxon.ancestors[1].id = ROOT_TAXON_ID
    THEN Tail(taxon.ancestors) ELSE taxon.ancestors

\* make_page_header(taxon): the ancestors of a displayed rank (<<>> for None)
make_page_header(f, taxon) ==
    LET kept == SelectSeq(header_ancestors(taxon),
                          LAMBDA a : a.rank \in Range(included_ranks(f.per_rank)))
    IN  [i \in 1..Len(kept) |-> kept[i].id]

\* whether make_structured_page(page) calls make_page_header
fp_wants_header(f, page) ==
    /\ f.taxa # <<>> /\ f.with_taxa
    /\ get_page_of_taxa(f, page) # <<>>
    /\ f.per_rank \in {"main", "any"}
    /\ fp_indent_level(f, get_page_of_taxa(f, page)[1]) > 1

\* a faulty variant of make_structured_page that puts the summary on every page
make_structured_page_with_summary(f, page) ==
    LET page_of_taxa == IF f.taxa # <<>> /\ f.with_taxa THEN get_page_of_taxa(f, page) ELSE <<>>
    IN  [header |-> "",
         entries_header |-> IF fp_wants_header(f, page)
                            THEN make_page_header(f, page_of_taxa[1]) ELSE <<>>,
         entries |-> [i \in 1..Len(page_of_taxa) |-> page_of_taxa[i].id],
         footer |-> TRUE]

\* make_structured_page(page)
make_structured_page(f, page) ==
    LET page_of_taxa == IF f.taxa # <<>> /\ f.with_taxa THEN get_page_of_taxa(f, page) ELSE <<>>
    IN  [header |-> "",
         entries_header |-> IF fp_wants_header(f, page)
                            THEN make_page_header(f, page_of_taxa[1]) ELSE <<>>,
         entries |-> [i \in 1..Len(page_of_taxa) |-> page_of_taxa[i].id],
         footer |-> (page = last_page(f))]

\* the taxa after make_structured_page(page): the page's first taxon's ancestors
\* list is the one make_page_header edits
taxa_after_page(f, page) ==
    IF fp_wants_header(f, page)
    THEN LET first == get_page_of_taxa(f, page)[1]
         IN  [i \in 1..Len(f.taxa) |->
                IF f.taxa[i].id = first.id
                THEN [f.taxa[i] EXCEPT !.ancestors = header_ancestors(first)]
                ELSE f.taxa[i]]
    ELSE f.taxa

\* the cache loop of format_page: append the structured pages up to `page`
RECURSIVE extend_pages(_, _)
extend_pages(f, page) ==
    IF Len(f.pages) - 1 >= page THEN f
    ELSE extend_pages([f EXCEPT !.pages = Append(f.pages, make_structured_page(f, Len(f.pages))),
                                !.taxa = taxa_after_page(f, Len(f.pages))],
                      page)

\* a faulty variant of render_page that highlights the last entry when
\* `selected` is past the end of the page
render_page_clamping(f, page, selected) ==
    LET sp == f.pages[page + 1]
    IN  [header |-> sp.header, entries_header |-> sp.entries_header,
         entries |-> sp.entries, footer |-> sp.footer,
         selected |-> IF selected < 0 THEN -1 ELSE Min(selected, Len(sp.entries) - 1)]

\* the text format_page(page, selected) returns, as its sections; `selected` is
\* the index of the highlighted entry, -1 when no entry is
render_page(f, page, selected) ==
    LET sp == f.pages[page + 1]
    IN  [header |-> sp.header, entries_header |-> sp.entries_header,
         entries |-> sp.entries, footer |-> sp.footer,
         selected |-> IF selected \in 0..(Len(sp.entries) - 1) THEN selected ELSE -1]

\* whether format_page's text is non-empty
rendered_nonempty(r) ==
    r.header # "" \/ r.entries_header # <<>> \/ r.entries # <<>> \/ r.footer

\* LifeListFormatter(taxon_list, per_rank, ..., per_page): a negative per_page is 0
LifeListFormatter(taxa, per_rank, per_page) ==
    [taxa |-> taxa, per_page |-> IF per_page >= 0 THEN per_page ELSE 0,
     with_taxa |-> TRUE, per_rank |-> per_rank, pages |-> <<>>]

----------------------------------------------------------------------------
(* The command layer: Context and Commands of commands/__init__.py.         *)
(* ctx is [has_formatter, page, per_page, selected]; ctx.page_formatter is  *)
(* the variable `formatter` when has_formatter.  `last` records the command *)
(* just run: its name, argument, outcome ("page": a rendered page, "msg": a *)
(* user-facing message, "raise": an exception reached the caller)          *)
(* and the response.                                                        *)

NoResponse == [header |-> "", entries_header |-> <<>>, entries |-> <<>>, footer |-> FALSE,
               selected |-> -1, page_no |-> 0, page_count |-> 0, msg |-> ""]

\* a response that is only a message
Message(text) == [NoResponse EXCEPT !.msg = text]

\* _get_formatted_page(formatter, page, selected, header): the formatter after
\* format_page has extended its cache
gfp_formatter(f, page) == extend_pages(f, page)

\* _get_formatted_page(formatter, page, selected, header): the response; the
\* "Page p/n" line is added when last_page() > 0
gfp_response(f, page, selected, header) ==
    LET r == render_page(extend_pages(f, page), page, selected)
    IN  [header |-> r.header, entries_header |-> r.entries_header, entries |-> r.entries,
         footer |-> r.footer, selected |-> r.selected,
         page_no |-> IF last_page(f) > 0 THEN page + 1 ELSE 0,
         page_count |-> IF last_page(f) > 0 THEN last_page(f) + 1 ELSE 0,
         msg |-> header]

Record(cmd, arg, outcome, response) ==
    [cmd |-> cmd, arg |-> arg, outcome |-> outcome, response |-> response]

NoListing(cmd, arg) ==
    /\ ~ctx.has_formatter
    /\ last' = Record(cmd, arg, "msg", Message("Type a command that has pages first"))
    /\ UNCHANGED <<ctx, formatter>>

\* a faulty variant of next_page that never wraps
next_page_no_wrap(f, page) == page + 1

\* a faulty variant of next_page that wraps one page late
next_page_wrap_late(f, page) == IF page > last_page(f) THEN 0 ELSE page + 1

\* the page Commands.next moves to
next_page(f, page) == IF page + 1 > last_page(f) THEN 0 ELSE page + 1

\* the page Commands.prev moves to
prev_page(f, page) == IF page - 1 < 0 THEN last_page(f) ELSE page - 1

\* a faulty variant of Commands.next that keeps the selection
Commands_next_keeps_selected ==
    /\ \/ NoListing("next", 0)
       \/ /\ ctx.has_formatter
          /\ LET np == next_page(formatter, ctx.page)
             IN  /\ ctx' = [ctx EXCEPT !.page = np]
                 /\ formatter' = gfp_formatter(formatter, np)
                 /\ last' = Record("next", 0, "page",
                                   gfp_response(formatter, np, ctx.selected, ""))
    /\ UNCHANGED <<source, call, taxon_list, filtered>>

\* Commands.next(ctx)
Commands_next ==
    /\ \/ NoListing("next", 0)
       \/ /\ ctx.has_formatter
          /\ LET np == next_page(formatter, ctx.page)
             IN  /\ ctx' = [ctx EXCEPT !.page = np, !.selected = 0]
                 /\ formatter' = gfp_formatter(formatter, np)
                 /\ last' = Record("next", 0, "page", gfp_response(formatter, np, 0, ""))
    /\ UNCHANGED <<source, call, taxon_list, filtered>>

\* Commands.prev(ctx)
Commands_prev ==
    /\ \/ NoListing("prev", 0)
       \/ /\ ctx.has_formatter
          /\ LET np == prev_page(formatter, ctx.page)
             IN  /\ ctx' = [ctx EXCEPT !.page = np, !.selected = 0]
                 /\ formatter' = gfp_formatter(formatter, np)
                 /\ last' = Record("prev", 0, "page", gfp_response(formatter, np, 0, ""))
    /\ UNCHANGED <<source, call, taxon_list, filtered>>

\* a faulty variant of page_rejected that lets one page too many through
page_rejected_one_late(f, page) == page > last_page(f) + 2 \/ page < 1

\* the test Commands.page rejects a page argument with
page_rejected(f, page) == page > last_page(f) + 1 \/ page < 1

\* Commands.page(ctx, page)
Commands_page(page) ==
    /\ \/ NoListing("page", page)
       \/ /\ ctx.has_formatter
          /\ page_rejected(formatter, page)
          /\ last' = Record("page", page, "msg",
                            Message(IF last_page(formatter) + 1 > 1
                                    THEN "Specify page 1 through N" ELSE "Specify page 1"))
          /\ UNCHANGED <<ctx, formatter>>
       \/ /\ ctx.has_formatter
          /\ ~page_rejected(formatter, page)
          /\ ctx' = [ctx EXCEPT !.page = page - 1, !.selected = 0]
          /\ formatter' = gfp_formatter(formatter, page - 1)
          /\ last' = Record("page", page, "page", gfp_response(formatter, page - 1, 0, ""))
    /\ UNCHANGED <<source, call, taxon_list, filtered>>

\* a faulty variant of sel_rejected that lets entry 0 through
sel_rejected_zero_ok(f, page, sel) == sel > Len(get_page_of_taxa(f, page)) \/ sel < 0

\* the test Commands.sel rejects an entry argument with
sel_rejected(f, page, sel) == sel > Len(get_page_of_taxa(f, page)) \/ sel < 1

\* Commands.sel(ctx, sel)
Commands_sel(sel) ==
    /\ \/ NoListing("sel", sel)
       \/ /\ ctx.has_formatter
          /\ sel_rejected(formatter, ctx.page, sel)
          /\ last' = Record("sel", sel, "msg",
                            Message(IF Len(get_page_of_taxa(formatter, ctx.page)) > 1
                                    THEN "Specify entry 1 through N" ELSE "Specify entry 1"))
          /\ UNCHANGED <<ctx, formatter>>
       \/ /\ ctx.has_formatter
          /\ ~sel_rejected(formatter, ctx.page, sel)
          /\ ctx' = [ctx EXCEPT !.selected = sel - 1]
          /\ formatter' = gfp_formatter(formatter, ctx.page)
          /\ last' = Record("sel", sel, "page",
                            gfp_response(formatter, ctx.page, sel - 1, ""))
    /\ UNCHANGED <<source, call, taxon_list, filtered>>

----------------------------------------------------------------------------
(* Listing commands.  What the iNat client returns is an input: the life    *)
(* list, the query taxon, the taxon's children and the rank search.         *)

\* a genus with n - 1 species, names descending, as a life list with rollups
StarList(n) ==
    [i \in 1..n |->
        [id |-> i, name |-> n + 1 - i, rank |-> IF i = 1 THEN "genus" ELSE "species",
         parent |-> IF i = 1 THEN 0 ELSE 1,
         count |-> IF i = 1 THEN 0 ELSE 1, has_desc |-> TRUE,
         desc |-> IF i = 1 THEN Max(n - 1, 1) ELSE 1, obs |-> 0]]

ChainRanks == <<"kingdom", "family", "genus", "species", "subspecies">>

\* Life, then a chain kingdom > family > genus > species > subspecies ...
ChainList(n) ==
    [i \in 1..n |->
        [id |-> IF i = 1 THEN ROOT_TAXON_ID ELSE i, name |-> n + 1 - i,
         rank |-> IF i = 1 THEN "stateofmatter" ELSE ChainRanks[Min(i - 1, Len(ChainRanks))],
         parent |-> IF i = 1 THEN 0 ELSE IF i = 2 THEN ROOT_TAXON_ID ELSE i - 1,
         count |-> IF i = n THEN 1 ELSE 0, has_desc |-> TRUE, desc |-> 1, obs |-> 0]]

\* the life lists the client may return; <<>> is an empty life list
LifeLists == {<<>>} \cup {StarList(n) : n \in 1..MaxLifeList}
                    \cup {ChainList(n) : n \in 2..MaxLifeList}

\* the parsed query of a `life` command and what the client returns for it:
\* `per`, `sort by` and `order` ("" is None), whether the author's iNat user is
\* known, the life list, and whether the query names a taxon (the list's first)
ValidLifeQueries ==
    [per : {"", "leaf", "child", "species"}, sort_by : {""}, order : {""},
     user_known : {TRUE}, life_list : LifeLists \ {<<>>}, with_taxon : {FALSE}]
    \cup
    [per : {"leaf", "child"}, sort_by : {"name"}, order : {"desc"},
     user_known : {TRUE}, life_list : {StarList(n) : n \in 2..MaxLifeList}, with_taxon : {FALSE}]
    \cup
    [per : {"", "child"}, sort_by : {""}, order : {""},
     user_known : {TRUE}, life_list : {StarList(n) : n \in 1..MaxLifeList}, with_taxon : {TRUE}]

BaseLifeQuery == [per |-> "", sort_by |-> "", order |-> "", user_known |-> TRUE,
                  life_list |-> StarList(1), with_taxon |-> FALSE]

LifeQueries ==
    ValidLifeQueries \cup
    { [BaseLifeQuery EXCEPT !.per = "bogus"],
      [BaseLifeQuery EXCEPT !.per = "bogus", !.user_known = FALSE],
      [BaseLifeQuery EXCEPT !.sort_by = "bogus"],
      [BaseLifeQuery EXCEPT !.order = "bogus"],
      [BaseLifeQuery EXCEPT !.user_known = FALSE],
      [BaseLifeQuery EXCEPT !.life_list = <<>>] }

\* the listing a command installs: the formatter after get_first_page() and the
\* title put on its first cached page
new_formatter(taxa, per_rank, per_page) ==
    LET f1 == extend_pages(LifeListFormatter(taxa, per_rank, per_page), 0)
    IN  IF rendered_nonempty(render_page(f1, 0, 0))
        THEN [f1 EXCEPT !.pages[1].header = "title"]
        ELSE f1

\* the tail of Commands.life and Commands.taxon_list once the filter has run:
\* set ctx.page_formatter, ctx.page and ctx.selected, render the first page.
\* `res` is the filter's result; an error is the exception the formatter's
\* constructor lets through, before ctx is touched.
InstallListing(cmd, res, per_rank, msg) ==
    IF res.status # "ok"
    THEN /\ last' = Record(cmd, 0, "raise", NoResponse)
         /\ UNCHANGED <<ctx, formatter>>
    ELSE \E f \in {new_formatter(res.taxa, per_rank, ctx.per_page)} :
         /\ ctx' = [ctx EXCEPT !.has_formatter = TRUE, !.page = 0, !.selected = 0]
         /\ formatter' = gfp_formatter(f, 0)
         /\ last' = Record(cmd, 0, "page", gfp_response(f, 0, 0, msg))

\* the message Commands.life returns before it builds a listing, "" when none
life_rejection(per, sort_by, order, user_known, life_list) ==
    LET per_rank == IF per = "" THEN "main" ELSE per
    IN  IF per_rank \notin (RANK_KEYWORDS \cup {"leaf", "child", "main", "any"})
        THEN "Specify per <rank-or-keyword>"
        ELSE IF sort_by \notin {"", "obs", "name"} THEN "Specify sort by obs or sort by name"
        ELSE IF order \notin {"", "asc", "desc"} THEN "Specify order asc or order desc"
        ELSE IF ~user_known THEN "Your iNat user is not known"
        ELSE IF life_list = <<>> THEN "No life list"
        ELSE ""

\* per_rank = query.per or "main"
life_per_rank(q) == IF q.per = "" THEN "main" ELSE q.per

\* the filter run by the formatter Commands.life constructs, for every query
\* that reaches it (a table, so that each is computed once)
life_filtered ==
    [q \in ValidLifeQueries |->
        filter_taxon_list(q.life_list, life_per_rank(q),
                          IF q.with_taxon THEN q.life_list[1] ELSE NoTaxon,
                          0, q.sort_by, q.order)]

\* a faulty variant of Commands_life whose rejection drops back to the first
\* page of the listing in the context
Commands_life_resetting(q) ==
    /\ LET reject == life_rejection(q.per, q.sort_by, q.order, q.user_known, q.life_list)
       IN  IF reject # ""
           THEN /\ last' = Record("life", 0, "msg", Message(reject))
                /\ ctx' = [ctx EXCEPT !.page = 0, !.selected = 0]
                /\ UNCHANGED formatter
           ELSE InstallListing("life", life_filtered[q], life_per_rank(q), "")
    /\ UNCHANGED <<source, call, taxon_list, filtered>>

\* Commands.life(ctx, *args)
Commands_life(q) ==
    /\ LET reject == life_rejection(q.per, q.sort_by, q.order, q.user_known, q.life_list)
       IN  IF reject # ""
           THEN /\ last' = Record("life", 0, "msg", Message(reject))
                /\ UNCHANGED <<ctx, formatter>>
           ELSE InstallListing("life", life_filtered[q], life_per_rank(q), "")
    /\ UNCHANGED <<source, call, taxon_list, filtered>>

\* the taxon a `taxon_list` query finds, with its children: a genus and n - 1
\* species as the taxa endpoint returns them (no life-list counts)
TaxonWithChildren(n) ==
    [i \in 1..n |->
        [StarList(n)[i] EXCEPT !.count = 0, !.has_desc = FALSE, !.desc = 0, !.obs = i]]

\* the one deeper descendant a rank search may return
ExtraDescendant(rank) ==
    [id |-> MaxLifeList + 1, name |-> 0, rank |-> rank, parent |-> 2,
     count |-> 0, has_desc |-> FALSE, desc |-> 0, obs |-> 1]

\* the parsed query of a `taxon_list` command and what the client returns for
\* it: `per`, `sort by`, `order`, whether a taxon is found, how many records it
\* and its children are, how many of the children are inactive (the last ones),
\* and the rank search's answer ("none", "one" record or too "many")
ValidTaxonListQueries ==
    [per : {"", "species", "subspecies"}, sort_by : {""}, order : {""}, found : {TRUE},
     size : 1..MaxLifeList, inactive : 0..1, search : {"none", "one", "many"}]

BaseTaxonListQuery == [per |-> "", sort_by |-> "", order |-> "", found |-> TRUE,
                       size |-> 1, inactive |-> 0, search |-> "none"]

TaxonListQueries ==
    {q \in ValidTaxonListQueries :
        /\ q.inactive < q.size
        /\ q.per = "" => q.search = "none"
        /\ q.search # "none" => q.inactive = 0}
    \cup
    { [BaseTaxonListQuery EXCEPT !.per = "bogus"],
      [BaseTaxonListQuery EXCEPT !.per = "genus"],
      [BaseTaxonListQuery EXCEPT !.sort_by = "bogus"],
      [BaseTaxonListQuery EXCEPT !.order = "bogus"],
      [BaseTaxonListQuery EXCEPT !.found = FALSE] }

\* per_rank = query.per or "child"
tl_per_rank(q) == IF q.per = "" THEN "child" ELSE q.per

\* _taxon_list: the taxon and its active children
tl_taxon_with_children(q) == SubSeq(TaxonWithChildren(q.size), 1, q.size - q.inactive)

\* the message Commands.taxon_list returns before it builds a listing, "" when none
taxon_list_rejection(q) ==
    IF tl_per_rank(q) \notin (RANK_KEYWORDS \cup {"child"})
    THEN "Specify per <rank> or per child"
    ELSE IF q.sort_by \notin {"", "obs", "name"} THEN "Specify sort by obs or sort by name"
    ELSE IF q.order \notin {"", "asc", "desc"} THEN "Specify order asc or order desc"
    ELSE IF ~q.found THEN "No taxon"
    ELSE IF tl_per_rank(q) # "child"
            /\ RANK_LEVELS(tl_per_rank(q)) >= RANK_LEVELS(TaxonWithChildren(q.size)[1].rank)
    THEN "The rank is not lower than the taxon rank"
    ELSE ""

\* whether the rank search's answer makes the command list children instead
tl_too_many(q) == tl_per_rank(q) # "child" /\ q.search = "many"

\* _per_rank as handed to the formatter
tl_formatter_per_rank(q) == IF tl_too_many(q) THEN "child" ELSE tl_per_rank(q)

\* taxon_list as handed to the formatter
tl_taxon_list(q) ==
    IF tl_formatter_per_rank(q) = "child" THEN tl_taxon_with_children(q)
    ELSE SelectSeq(tl_taxon_with_children(q),
                   LAMBDA c : RANK_LEVELS(c.rank) = RANK_LEVELS(tl_per_rank(q)))
         \o (IF q.search = "one" THEN <<ExtraDescendant(tl_per_rank(q))>> ELSE <<>>)

\* the filter run by the formatter Commands.taxon_list constructs (a table, so
\* that each is computed once)
taxon_list_filtered ==
    [q \in {x \in TaxonListQueries : taxon_list_rejection(x) = ""} |->
        filter_taxon_list(tl_taxon_list(q), tl_formatter_per_rank(q),
                          TaxonWithChildren(q.size)[1], 0, q.sort_by, q.order)]

\* Commands.taxon_list(ctx, *args)
Commands_taxon_list(q) ==
    /\ IF taxon_list_rejection(q) # ""
       THEN /\ last' = Record("taxon_list", 0, "msg", Message(taxon_list_rejection(q)))
            /\ UNCHANGED <<ctx, formatter>>
       ELSE InstallListing("taxon_list", taxon_list_filtered[q], tl_formatter_per_rank(q),
                           IF tl_too_many(q) THEN "Too many. Listing children instead" ELSE "")
    /\ UNCHANGED <<source, call, taxon_list, filtered>>

----------------------------------------------------------------------------
(* Specification of one session: a Context as constructed, its per_page set *)
(* by the host application, and the commands in any order.                  *)

NoSource == [entries |-> <<>>, per_page |-> 1, max_pages |-> 0, taxon_list |-> FALSE]
NoCall == [op |-> "", arg |-> 0, raised |-> FALSE, single |-> FALSE, result |-> <<>>,
           value |-> 0, flag |-> FALSE]
NoFilter == [fn |-> "", per_rank |-> "", sort_by |-> "", order |-> "", with_taxon |-> FALSE,
             done |-> FALSE, pass |-> 0, status |-> "", taxa |-> <<>>, ranks |-> "",
             tot |-> <<>>, taxon_count |-> 0]

NoLast == [cmd |-> "", arg |-> 0, outcome |-> "", response |-> NoResponse]

Init ==
    /\ ctx \in [has_formatter : {FALSE}, page : {0}, per_page : 0..MaxPerPage, selected : {0}]
    /\ formatter = NoFormatter
    /\ last = NoLast
    /\ source = NoSource
    /\ call = NoCall
    /\ taxon_list = <<>>
    /\ filtered = NoFilter

Next ==
    \/ Commands_next
    \/ Commands_prev
    \/ \E n \in 0..MaxArg : Commands_page(n)
    \/ \E k \in 0..MaxArg : Commands_sel(k)
    \/ \E q \in LifeQueries : Commands_life(q)
    \/ \E q \in TaxonListQueries : Commands_taxon_list(q)

Spec == Init /\ [][Next]_vars

----------------------------------------------------------------------------
(* Page navigation and selection (Spec).                                    *)

\* the ids of the taxa of page n of the current listing, from the start of the
\* list (per_page 0 is one page holding every taxon)
ListingSlice(n) ==
    LET pp == formatter.per_page
        from == IF pp > 0 THEN n * pp + 1 ELSE 1
        to == IF pp > 0 THEN Min((n + 1) * pp, Len(formatter.taxa)) ELSE Len(formatter.taxa)
    IN  [i \in 1..(to - from + 1) |-> formatter.taxa[from + i - 1].id]

\* C1: next on the last page wraps to page 0 and prev on page 0 wraps to
\* last_page(); otherwise next adds one and prev subtracts one; on a
\* single-page listing both leave the page at 0.
C1_NextPrevWrap ==
    [][ /\ (last'.cmd = "next" /\ last'.outcome = "page")
            => /\ ctx'.page = IF ctx.page = last_page(formatter) THEN 0 ELSE ctx.page + 1
               /\ last_page(formatter) = 0 => ctx'.page = 0
        /\ (last'.cmd = "prev" /\ last'.outcome = "page")
            => /\ ctx'.page = IF ctx.page = 0 THEN last_page(formatter) ELSE ctx.page - 1
               /\ last_page(formatter) = 0 => ctx'.page = 0 ]_vars

\* C1 happens: next has just wrapped from the last page of a listing of
\* several pages
C1_Witness ==
    /\ last.cmd = "next" /\ last.outcome = "page"
    /\ last_page(formatter) > 0 /\ ctx.page = 0

\* C2: after every successful next, prev or page jump the selection is entry 0;
\* after a successful life or taxon_list the page is 0 and the selection is 0.
C2_SelectionReset ==
    /\ (last.cmd \in {"next", "prev", "page"} /\ last.outcome = "page")
        => /\ ctx.selected = 0
           /\ last.response.selected \in {0, -1}
    /\ (last.cmd \in {"life", "taxon_list"} /\ last.outcome = "page")
        => ctx.page = 0 /\ ctx.selected = 0

\* C2 happens: next has landed on a page with more than one entry, on which a
\* selection other than entry 0 exists
C2_Witness ==
    /\ last.cmd = "next" /\ last.outcome = "page"
    /\ Len(last.response.entries) > 1 /\ ctx.selected = 0

\* C3: a page jump to a page that does not exist answers with a message and
\* leaves the context as it was, raising nothing; a jump to an existing page
\* sets the page and renders that page's slice, with the footer on the last.
C3_PageJump ==
    [][ (last'.cmd = "page" /\ ctx.has_formatter)
        => IF last'.arg \in 1..(last_page(formatter) + 1)
           THEN /\ last'.outcome = "page"
                /\ ctx'.page = last'.arg - 1
                /\ last'.response.entries = ListingSlice(last'.arg - 1)
                /\ last'.response.footer = (last'.arg - 1 = last_page(formatter))
           ELSE /\ last'.outcome = "msg"
                /\ last'.response.msg # ""
                /\ ctx' = ctx ]_vars

\* C3 happens: page 3 of a three-page listing has been rendered, with footer
C3_Witness ==
    /\ last.cmd = "page" /\ last.arg = 3 /\ last.outcome = "page"
    /\ last_page(formatter) = 2 /\ ctx.page = 2
    /\ last.response.entries # <<>> /\ last.response.footer

\* C4: sel K is accepted exactly when 1 <= K <= the number of entries on the
\* current page; it then selects entry K and keeps the page; otherwise it
\* answers with a message and changes nothing.
C4_Select ==
    [][ (last'.cmd = "sel" /\ ctx.has_formatter)
        => IF last'.arg \in 1..Len(formatter.pages[ctx.page + 1].entries)
           THEN /\ last'.outcome = "page"
                /\ ctx'.selected = last'.arg - 1
                /\ ctx'.page = ctx.page
                /\ last'.response.selected = last'.arg - 1
           ELSE /\ last'.outcome = "msg"
                /\ last'.response.msg # ""
                /\ ctx' = ctx ]_vars

\* C4 happens: the second entry of a page of a listing of several pages has
\* been selected
C4_Witness ==
    /\ last.cmd = "sel" /\ last.arg = 2 /\ last.outcome = "page"
    /\ ctx.selected = 1 /\ last_page(formatter) > 0

----------------------------------------------------------------------------
(* Page sources: ListPageSource of menus/source.py and TaxonListSource of   *)
(* menus/taxon_list.py, with the formatter's own page retrieval.  A source  *)
(* is [entries, per_page, max_pages, taxon_list]; taxon_list tells a        *)
(* TaxonListSource from a plain ListPageSource.  `call` records the method  *)
(* just called: its name, argument, whether it raised, and what it returned *)
(* (result: the entries, single: one element rather than a list, value: an  *)
(* int, flag: a bool).                                                      *)

\* a faulty variant of the constructor that drops the left-over page
ListPageSource_floor(entries, per_page) ==
    [entries |-> entries, per_page |-> per_page,
     max_pages |-> FloorDiv(Len(entries), per_page), taxon_list |-> FALSE]

\* ListPageSource.__init__(entries, per_page=per_page)
ListPageSource(entries, per_page) ==
    LET pages == FloorDiv(Len(entries), per_page)
        left_over == Len(entries) % per_page
    IN  [entries |-> entries, per_page |-> per_page,
         max_pages |-> IF left_over # 0 THEN pages + 1 ELSE pages,
         taxon_list |-> FALSE]

\* TaxonListSource.__init__, its entries already filtered
TaxonListSource(entries, per_page) ==
    [ListPageSource(entries, per_page) EXCEPT !.taxon_list = TRUE]

\* ListPageSource.get_max_pages()
get_max_pages(src) == src.max_pages

\* ListPageSource.is_paginating()
ListPageSource_is_paginating(src) == Len(src.entries) > src.per_page

\* a faulty variant of TaxonListSource.is_paginating that is not overridden
TaxonListSource_is_paginating_inherited(src) == Len(src.entries) > src.per_page

\* TaxonListSource.is_paginating()
TaxonListSource_is_paginating(src) == TRUE

\* is_paginating() as the source's class resolves it
is_paginating(src) ==
    IF src.taxon_list THEN TaxonListSource_is_paginating(src)
    ELSE ListPageSource_is_paginating(src)

\* a faulty variant of get_page whose pages start one entry early
get_page_overlapping(src, page_number) ==
    [raised |-> FALSE, single |-> FALSE,
     result |-> PySlice(src.entries, page_number * src.per_page - page_number,
                        page_number * src.per_page - page_number + src.per_page)]

\* ListPageSource.get_page(page_number): [raised, single, result]
get_page(src, page_number) ==
    IF src.per_page = 1
    THEN IF PyIndexOk(src.entries, page_number)
         THEN [raised |-> FALSE, single |-> TRUE,
               result |-> <<PyIndex(src.entries, page_number)>>]
         ELSE [raised |-> TRUE, single |-> FALSE, result |-> <<>>]
    ELSE LET base == page_number * src.per_page
         IN  [raised |-> FALSE, single |-> FALSE,
              result |-> PySlice(src.entries, base, base + src.per_page)]

\* await source.get_page(n)
Source_get_page(n) ==
    /\ call' = [NoCall EXCEPT !.op = "get_page", !.arg = n,
                              !.raised = get_page(source, n).raised,
                              !.single = get_page(source, n).single,
                              !.result = get_page(source, n).result]
    /\ UNCHANGED <<ctx, formatter, last, source, taxon_list, filtered>>

\* source.get_max_pages()
Source_get_max_pages ==
    /\ call' = [NoCall EXCEPT !.op = "get_max_pages", !.value = get_max_pages(source)]
    /\ UNCHANGED <<ctx, formatter, last, source, taxon_list, filtered>>

\* source.is_paginating()
Source_is_paginating ==
    /\ call' = [NoCall EXCEPT !.op = "is_paginating", !.flag = is_paginating(source)]
    /\ UNCHANGED <<ctx, formatter, last, source, taxon_list, filtered>>

\* formatter.get_page_of_taxa(n)
Formatter_get_page_of_taxa(n) ==
    /\ call' = [NoCall EXCEPT !.op = "get_page_of_taxa", !.arg = n,
                              !.result = get_page_of_taxa(formatter, n)]
    /\ UNCHANGED <<ctx, formatter, last, source, taxon_list, filtered>>

\* formatter.last_page()
Formatter_last_page ==
    /\ call' = [NoCall EXCEPT !.op = "last_page", !.value = last_page(formatter)]
    /\ UNCHANGED <<ctx, formatter, last, source, taxon_list, filtered>>

\* the entries of a source: n distinct items in order
Entries(n) == [i \in 1..n |-> i]

\* a source, and a formatter over the same entries and page size, as constructed
InitSource ==
    /\ \E n \in 0..MaxEntries, per_page \in 1..MaxSourcePerPage :
          /\ source \in {ListPageSource(Entries(n), per_page),
                         TaxonListSource(Entries(n), per_page)}
          /\ formatter = LifeListFormatter(Entries(n), "main", per_page)
    /\ ctx = [has_formatter |-> FALSE, page |-> 0, per_page |-> 0, selected |-> 0]
    /\ last = NoLast
    /\ call = NoCall
    /\ taxon_list = <<>>
    /\ filtered = NoFilter

NextSource ==
    \/ \E n \in (-MaxPageNo)..MaxPageNo : Source_get_page(n)
    \/ Source_get_max_pages
    \/ Source_is_paginating
    \/ \E n \in (-MaxPageNo)..MaxPageNo : Formatter_get_page_of_taxa(n)
    \/ Formatter_last_page

SpecSource == InitSource /\ [][NextSource]_vars

\* the number of pages of `count` entries at `page_size` a page: the least k
\* with k * page_size >= count
PageCount(count, page_size) ==
    CHOOSE k \in 0..count : k * page_size >= count /\ \A j \in 0..(k - 1) : j * page_size < count

\* entries n*page_size .. (n+1)*page_size - 1 of the sequence, clamped to its end
ClampedSlice(entries, page_size, n) ==
    [i \in 1..(Min((n + 1) * page_size, Len(entries)) - n * page_size) |->
        entries[n * page_size + i]]

\* the pages 0..n-1 given by `page`, one after another
RECURSIVE PagesJoined(_, _)
PagesJoined(page(_), n) ==
    IF n = 0 THEN <<>> ELSE PagesJoined(page, n - 1) \o page(n - 1)

\* C5 as stated: get_max_pages() and last_page() both report the highest valid
\* zero-based page index, ceil(count / page_size) - 1, and 0 when the sequence
\* is empty or fits on one page.
C5_HighestIndexBoth ==
    call.op \in {"get_max_pages", "last_page"}
        => call.value = Max(PageCount(Len(source.entries), source.per_page) - 1, 0)

\* C5: last_page() reports the highest valid zero-based page index,
\* ceil(count / page_size) - 1, and 0 when the sequence is empty or fits on one
\* page; get_max_pages() reports the number of pages, ceil(count / page_size),
\* which is 0 for an empty sequence and one more than last_page() otherwise.
C5_MaxPages ==
    /\ call.op = "last_page"
        => call.value = Max(PageCount(Len(formatter.taxa), formatter.per_page) - 1, 0)
    /\ call.op = "get_max_pages"
        => /\ call.value = PageCount(Len(source.entries), source.per_page)
           /\ source.entries = <<>> => call.value = 0
           /\ source.entries # <<>> => call.value = last_page(formatter) + 1

\* C5 happens: get_max_pages() has answered for a sequence whose last page is
\* a left-over page
C5_Witness ==
    /\ call.op = "get_max_pages" /\ call.value = 3
    /\ Len(source.entries) = 5 /\ source.per_page = 2

\* C6: page retrieval returns the clamped slice for a valid page n and fails
\* with an out-of-range error when n is negative or n * page_size is at or
\* beyond the end of a non-empty sequence; it never answers such a request with
\* an empty page or with entries counted from the end.
C6_PageRetrieval ==
    call.op \in {"get_page", "get_page_of_taxa"}
        => IF call.arg >= 0 /\ call.arg * source.per_page < Len(source.entries)
           THEN /\ ~call.raised
                /\ call.result = ClampedSlice(source.entries, source.per_page, call.arg)
           ELSE (call.arg < 0 \/ source.entries # <<>>) => call.raised

\* C7: the pages of a sequence partition it: page n holds entries
\* n*page_size .. (n+1)*page_size - 1, no page holds more than page_size
\* entries, the pages in order give back the sequence, and fetching a page
\* again gives the same entries.
C7_PagesPartition ==
    /\ \A n \in 0..(get_max_pages(source) - 1) :
          /\ ~get_page(source, n).raised
          /\ get_page(source, n).result = ClampedSlice(source.entries, source.per_page, n)
          /\ Len(get_page(source, n).result) \in 1..source.per_page
    /\ PagesJoined(LAMBDA n : get_page(source, n).result, get_max_pages(source))
          = source.entries
    /\ PagesJoined(LAMBDA n : get_page_of_taxa(formatter, n),
                   IF formatter.taxa = <<>> THEN 0 ELSE last_page(formatter) + 1)
          = formatter.taxa
    /\ (call.op = "get_page" /\ call.arg \in 0..(get_max_pages(source) - 1))
          => /\ ~call.raised
             /\ call.result = ClampedSlice(source.entries, source.per_page, call.arg)
    /\ (call.op = "get_page_of_taxa" /\ call.arg \in 0..last_page(formatter)
        /\ formatter.taxa # <<>>)
          => /\ call.result = ClampedSlice(formatter.taxa, formatter.per_page, call.arg)
             /\ Len(call.result) \in 1..formatter.per_page

\* C7 happens: the second page of five entries at two a page has been fetched
C7_Witness ==
    /\ call.op = "get_page" /\ call.arg = 1 /\ ~call.raised
    /\ Len(source.entries) = 5 /\ source.per_page = 2
    /\ call.result = <<3, 4>>

\* C8 as stated: is_paginating() of the taxon-list paginator is true exactly
\* when the filtered entries outnumber the page size.
C8_TaxonListPaginatesWhenLonger ==
    (call.op = "is_paginating" /\ source.taxon_list)
        => call.flag = (Len(source.entries) > source.per_page)

\* C8: is_paginating() of the taxon-list paginator is always true, whatever
\* the number of entries; that of a plain ListPageSource is true exactly when
\* the entries outnumber the page size.
C8_IsPaginating ==
    call.op = "is_paginating"
        => IF source.taxon_list THEN call.flag
           ELSE call.flag = (Len(source.entries) > source.per_page)

\* C8 happens: a taxon-list paginator whose entries fit on one page has
\* answered is_paginating()
C8_Witness ==
    /\ call.op = "is_paginating" /\ source.taxon_list /\ call.flag
    /\ source.entries # <<>> /\ Len(source.entries) <= source.per_page

----------------------------------------------------------------------------
(* The rank filter on its own: a taxon list as the iNat client returns it,  *)
(* then calls of filter_taxon_list and filter_life_list on it.  `filtered`  *)
(* records the last call: the function, its per_rank, sort_by and order,    *)
(* whether a query taxon was given, how many passes have run on the list,   *)
(* and the status, taxa, ranks description, per-rank totals and taxon count *)
(* it returned.                                                             *)

\* the ranks of the records drawn
FilterRanks == {"genus", "species"}

\* the records drawn, before their ids and descendant counts are set: any name
\* and rank, no parent (0) or the position of an earlier record, and an amount
\* that is the direct count of a record with both counts (a TaxonCount) and
\* the observations_count of a record with neither (a Taxon)
RawRecords ==
    [name : 1..MaxName, rank : FilterRanks, parent : 0..(MaxTaxa - 1),
     has_desc : BOOLEAN, amount : 0..MaxCount]

\* a parent comes earlier in the list and has a coarser rank
WellFormed(L) ==
    \A i \in 1..Len(L) :
        /\ L[i].parent < i
        /\ L[i].parent # 0 => RANK_LEVELS(L[L[i].parent].rank) > RANK_LEVELS(L[i].rank)

\* descendant_obs_count of record i: its own count and that of the records
\* with counts beneath it
RECURSIVE DescOf(_, _)
RECURSIVE DescBelow(_, _, _)
DescOf(L, i) == L[i].amount + DescBelow(L, i, Len(L))
DescBelow(L, i, j) ==
    IF j <= i THEN 0
    ELSE DescBelow(L, i, j - 1)
         + (IF L[j].parent = i /\ L[j].has_desc THEN DescOf(L, j) ELSE 0)

\* the taxon list of the records drawn
TaxonList(L) ==
    [i \in 1..Len(L) |->
        [id |-> i, name |-> L[i].name, rank |-> L[i].rank, parent |-> L[i].parent,
         count |-> IF L[i].has_desc THEN L[i].amount ELSE 0,
         has_desc |-> L[i].has_desc,
         desc |-> IF L[i].has_desc THEN DescOf(L, i) ELSE 0,
         obs |-> IF L[i].has_desc THEN 0 ELSE L[i].amount]]

\* the arguments of a filter call: the policy, the sort and whether the query
\* names a taxon (the list's first record)
FilterCalls ==
    [per_rank : {"leaf"}, sort_by : {""}, order : {""}, with_taxon : {FALSE}]
    \cup
    [per_rank : {"leaf"}, sort_by : {"name"}, order : {"desc"}, with_taxon : {FALSE}]
    \cup
    [per_rank : {"leaf"}, sort_by : {"obs"}, order : {"", "asc"}, with_taxon : {FALSE}]
    \cup
    [per_rank : {"child", "main", "species"}, sort_by : {""}, order : {""},
     with_taxon : {FALSE}]

\* entries, meta = filter_taxon_list(taxon_list, per_rank, taxon, None, sort_by, order),
\* on a list as the client returned it (no filter has run on its records yet)
Filter_taxon_list(c) ==
    /\ ~filtered.done
    /\ \E res \in {filter_taxon_list(taxon_list, c.per_rank,
                                     IF c.with_taxon THEN taxon_list[1] ELSE NoTaxon,
                                     0, c.sort_by, c.order)} :
          filtered' = [fn |-> "filter_taxon_list", per_rank |-> c.per_rank,
                       sort_by |-> c.sort_by, order |-> c.order,
                       with_taxon |-> c.with_taxon, done |-> TRUE, pass |-> 1,
                       status |-> res.status, taxa |-> res.taxa, ranks |-> res.ranks,
                       tot |-> res.tot, taxon_count |-> res.taxon_count]
    /\ UNCHANGED <<ctx, formatter, last, source, call, taxon_list>>

\* filter_life_list(life_list, per_rank, taxon, None), the list being a life
\* list: every record has both counts
Filter_life_list(c) ==
    /\ ~filtered.done
    /\ \A i \in 1..Len(taxon_list) : taxon_list[i].has_desc
    /\ c.per_rank # "child" /\ c.sort_by = "" /\ c.order = ""
    /\ \E res \in {filter_life_list(taxon_list, c.per_rank,
                                    IF c.with_taxon THEN taxon_list[1] ELSE NoTaxon, 0)} :
          filtered' = [fn |-> "filter_life_list", per_rank |-> c.per_rank,
                       sort_by |-> "", order |-> "",
                       with_taxon |-> c.with_taxon, done |-> TRUE, pass |-> 1,
                       status |-> res.status, taxa |-> res.taxa, ranks |-> res.ranks,
                       tot |-> res.tot, taxon_count |-> res.taxon_count]
    /\ UNCHANGED <<ctx, formatter, last, source, call, taxon_list>>

InitFilter ==
    /\ \E n \in 1..MaxTaxa : \E L \in [1..n -> RawRecords] :
          WellFormed(L) /\ taxon_list = TaxonList(L)
    /\ filtered = NoFilter
    /\ ctx = [has_formatter |-> FALSE, page |-> 0, per_page |-> 0, selected |-> 0]
    /\ formatter = NoFormatter
    /\ last = NoLast
    /\ source = NoSource
    /\ call = NoCall

NextFilter ==
    \/ \E c \in FilterCalls : Filter_taxon_list(c)
    \/ \E c \in FilterCalls : Filter_life_list(c)

SpecFilter == InitFilter /\ [][NextFilter]_vars

\* whether the list has a record beneath record `id`
HasChild(L, id) == \E i \in 1..Len(L) : L[i].parent = id

\* C9: filtering with policy "leaf" returns only leaf nodes: every returned
\* node has its direct count equal to its descendant count, and a returned
\* node whose descendant count is absent has nothing beneath it.
C9_LeafOnly ==
    (filtered.done /\ filtered.per_rank = "leaf")
        => \A i \in 1..Len(filtered.taxa) :
              IF filtered.taxa[i].has_desc
              THEN filtered.taxa[i].count = filtered.taxa[i].desc
              ELSE ~HasChild(taxon_list, filtered.taxa[i].id)

\* C10 as stated: the result of the "leaf" policy is sorted by name, whatever
\* the nodes' ranks, their position in the tree and the requested sort key.
C10_LeafSortedByName ==
    (filtered.done /\ filtered.per_rank = "leaf")
        => \A i \in 1..(Len(filtered.taxa) - 1) :
              filtered.taxa[i].name <= filtered.taxa[i + 1].name

\* the observation count the obs sort key reads
ObsKey(t) == IF t.has_desc /\ t.desc # 0 THEN t.desc ELSE t.obs

\* C10: the result of the "leaf" policy is sorted, not left in tree order.
\* filter_life_list sorts it by name alone.  filter_taxon_list sorts it by the
\* requested key under the rank level: a coarser rank comes first, and within
\* one rank level the names ascend (descend for order "desc") or, for sort by
\* obs, the observation counts descend (ascend for order "asc") with equal
\* counts in ascending name order.
C10_LeafSorted ==
    (filtered.done /\ filtered.per_rank = "leaf")
        => \A i \in 1..(Len(filtered.taxa) - 1) :
              LET a == filtered.taxa[i]
                  b == filtered.taxa[i + 1]
              IN  IF filtered.fn = "filter_life_list" THEN a.name <= b.name
                  ELSE /\ RANK_LEVELS(a.rank) >= RANK_LEVELS(b.rank)
                       /\ RANK_LEVELS(a.rank) = RANK_LEVELS(b.rank)
                          => IF filtered.sort_by = "obs"
                             THEN /\ IF filtered.order = "asc" THEN ObsKey(a) <= ObsKey(b)
                                     ELSE ObsKey(a) >= ObsKey(b)
                                  /\ ObsKey(a) = ObsKey(b) => a.name <= b.name
                             ELSE IF filtered.order = "desc" THEN a.name >= b.name
                                  ELSE a.name <= b.name

\* C10 happens: filter_taxon_list has returned two leaves of different ranks,
\* the coarser first although its name is the greater
C10_Witness ==
    /\ filtered.done /\ filtered.fn = "filter_taxon_list" /\ filtered.per_rank = "leaf"
    /\ filtered.sort_by = "" /\ Len(filtered.taxa) = 2
    /\ RANK_LEVELS(filtered.taxa[1].rank) > RANK_LEVELS(filtered.taxa[2].rank)
    /\ filtered.taxa[1].name > filtered.taxa[2].name
    /\ filtered.taxa[1].id > filtered.taxa[2].id

----------------------------------------------------------------------------
(* The rank filter on taxonomic trees: lists of up to MaxNodes records over *)
(* four ranks of three levels, so that a record can have children and       *)
(* grandchildren, two ranks share a level and the first record can be Life  *)
(* itself (rank stateofmatter, id ROOT_TAXON_ID), every other record then   *)
(* being beneath it.  The records are plain Taxon records:                  *)
(* observations_count only.                                                 *)

TreeRanks == {"stateofmatter", "genus", "genushybrid", "species"}

\* the records drawn, before their ids and names are set
TreeRawRecords == [rank : TreeRanks, parent : 0..(MaxNodes - 1)]

\* the id of record i: its position, or ROOT_TAXON_ID for a first record that is Life
TreeId(life, i) == IF life /\ i = 1 THEN ROOT_TAXON_ID ELSE i

\* the taxon list of the records drawn; the names ascend or descend with the
\* position, so that the sort key can change the order of siblings
TreeTaxonList(L, life, rev) ==
    [i \in 1..Len(L) |->
        [id |-> TreeId(life, i),
         name |-> IF rev THEN Len(L) + 1 - i ELSE i,
         rank |-> L[i].rank,
         parent |-> IF L[i].parent = 0 THEN 0 ELSE TreeId(life, L[i].parent),
         count |-> 0, has_desc |-> FALSE, desc |-> 0, obs |-> i % 2]]

\* the arguments of a filter call on a tree: a policy, a rank, a rank synonym
\* or a name that is no rank; the sort; whether the query names a taxon (the
\* list's first record)
TreeCalls ==
    [per_rank : {"child", "main", "any", "genus", "genushybrid", "species", "sp", "bogus"},
     sort_by : {""}, order : {""}, with_taxon : BOOLEAN]
    \cup
    [per_rank : {"child", "main", "any", "genus", "species"},
     sort_by : {"name"}, order : {"desc"}, with_taxon : BOOLEAN]
    \cup
    [per_rank : {"child", "main", "any", "genus", "species"},
     sort_by : {"obs"}, order : {"", "asc"}, with_taxon : BOOLEAN]

InitTree ==
    /\ \E n \in 1..MaxNodes : \E L \in [1..n -> TreeRawRecords] :
       \E life \in BOOLEAN : \E rev \in BOOLEAN :
          /\ WellFormed(L)
          /\ life => /\ L[1].rank = "stateofmatter"
                      /\ \A i \in 2..n : L[i].parent # 0
          /\ taxon_list = TreeTaxonList(L, life, rev)
    /\ filtered = NoFilter
    /\ ctx = [has_formatter |-> FALSE, page |-> 0, per_page |-> 0, selected |-> 0]
    /\ formatter = NoFormatter
    /\ last = NoLast
    /\ source = NoSource
    /\ call = NoCall

\* the list as a pass left it: the records it returned carry the indent_level
\* and ancestors it assigned to them
StaleList(L, taxa) ==
    [i \in 1..Len(L) |->
        IF \E j \in 1..Len(taxa) : taxa[j].id = L[i].id
        THEN taxa[CHOOSE j \in 1..Len(taxa) : taxa[j].id = L[i].id]
        ELSE L[i]]

\* the same call of filter_taxon_list once more, on the records the first
\* pass has written to
Filter_taxon_list_again ==
    /\ filtered.done /\ filtered.pass = 1 /\ filtered.status = "ok"
    /\ \E res \in {filter_taxon_list(StaleList(taxon_list, filtered.taxa), filtered.per_rank,
                                     IF filtered.with_taxon THEN taxon_list[1] ELSE NoTaxon,
                                     0, filtered.sort_by, filtered.order)} :
          filtered' = [filtered EXCEPT !.pass = 2, !.status = res.status, !.taxa = res.taxa,
                                       !.ranks = res.ranks, !.tot = res.tot,
                                       !.taxon_count = res.taxon_count]
    /\ UNCHANGED <<ctx, formatter, last, source, call, taxon_list>>

NextTree ==
    \/ \E c \in TreeCalls : Filter_taxon_list(c)
    \/ Filter_taxon_list_again

SpecTree == InitTree /\ [][NextTree]_vars

\* the ids of the records of the list directly beneath record `id`
ChildIds(L, id) == {L[i].id : i \in {j \in 1..Len(L) : L[j].parent = id}}

\* the ids of the returned nodes
ReturnedIds == {filtered.taxa[i].id : i \in 1..Len(filtered.taxa)}

\* whether a call of filter_taxon_list with this policy has returned
Returned(per_rank) ==
    filtered.done /\ filtered.status = "ok" /\ filtered.per_rank = per_rank

\* C11 as stated: the "child" policy returns the filtered root (the list's
\* first record here) and its direct children in the list, each once, nothing
\* deeper, all at indent_level 0.
C11_ChildWithRoot ==
    Returned("child")
        => /\ ReturnedIds = {taxon_list[1].id} \cup ChildIds(taxon_list, taxon_list[1].id)
           /\ Len(filtered.taxa) = Cardinality(ReturnedIds)
           /\ \A i \in 1..Len(filtered.taxa) : filtered.taxa[i].indent_level = 0

\* C11: the "child" policy returns exactly the direct children of the filtered
\* root that are in the list, each once: not the root itself and nothing
\* deeper; every returned node has indent_level 0 and the taxon count is the
\* number of children.
C11_ChildOnly ==
    Returned("child")
        => /\ ReturnedIds = ChildIds(taxon_list, taxon_list[1].id)
           /\ Len(filtered.taxa) = Cardinality(ReturnedIds)
           /\ filtered.taxon_count = Cardinality(ReturnedIds)
           /\ \A i \in 1..Len(filtered.taxa) : filtered.taxa[i].indent_level = 0

\* C11 happens: Life, its one genus and a record beneath that genus
\* were filtered with "child", and the genus alone came back
C11_Witness ==
    /\ Returned("child") /\ Len(taxon_list) = 3
    /\ taxon_list[1].rank = "stateofmatter" /\ taxon_list[2].rank = "genus"
    /\ taxon_list[2].parent = taxon_list[1].id
    /\ taxon_list[3].parent = taxon_list[2].id
    /\ Len(filtered.taxa) = 1 /\ filtered.taxa[1].id = taxon_list[2].id
    /\ filtered.taxon_count = 1

\* a "main" pass whose reference taxon (the list's first record) has a rank
\* coarser than every main rank has returned
MainCoarseReference ==
    /\ Returned("main") /\ filtered.with_taxon
    /\ \A i \in 1..Len(COMMON_RANKS) :
          RANK_LEVELS(taxon_list[1].rank) > RANK_LEVELS(COMMON_RANKS[i])

\* C12: such a pass returns at least the reference taxon: the reference taxon
\* is among the returned nodes, so the result is never empty.
C12_ReferenceReturned ==
    MainCoarseReference
        => taxon_list[1].id \in ReturnedIds /\ filtered.taxa # <<>>

\* how many nodes of the sequence have the rank
RECURSIVE CountRank(_, _)
CountRank(taxa, rank) ==
    IF taxa = <<>> THEN 0
    ELSE (IF Head(taxa).rank = rank THEN 1 ELSE 0) + CountRank(Tail(taxa), rank)

\* the sum of the totals of the ranks in S
RECURSIVE SumTotals(_, _)
SumTotals(tot, S) ==
    IF S = {} THEN 0
    ELSE LET r == CHOOSE x \in S : TRUE IN tot[r] + SumTotals(tot, S \ {r})

\* C13: the per-rank totals are exact counts of the returned nodes: a total is
\* reported for just the ranks returned, the total of each rank is the number
\* of returned nodes of that rank, and the totals sum to taxon_count, which is
\* the length of the returned list.
C13_RankTotals ==
    (filtered.done /\ filtered.status = "ok")
        => /\ DOMAIN filtered.tot = {filtered.taxa[i].rank : i \in 1..Len(filtered.taxa)}
           /\ \A r \in DOMAIN filtered.tot :
                 filtered.tot[r] = CountRank(filtered.taxa, r)
           /\ SumTotals(filtered.tot, DOMAIN filtered.tot) = filtered.taxon_count
           /\ filtered.taxon_count = Len(filtered.taxa)

\* C13 happens: three nodes of two ranks were returned, two of them of one rank
C13_Witness ==
    /\ filtered.done /\ filtered.status = "ok"
    /\ Len(filtered.taxa) = 3 /\ Cardinality(DOMAIN filtered.tot) = 2
    /\ \E r \in DOMAIN filtered.tot : filtered.tot[r] = 2

\* the rank a rank name stands for
CanonicalRank(rank) == IF rank \in RankSynonyms THEN RANK_EQUIVALENTS(rank) ELSE rank

\* C14: the single-rank filter resolves synonyms and rank groups: a call whose
\* per_rank is a rank or a key of RANK_EQUIVALENTS returns normally, every
\* returned node has the rank level of the canonical rank (so "genus" and
\* "genushybrid" both come back for either, and a synonym gives what its
\* canonical rank gives), and every record of the list of that rank level is
\* returned.
C14_SynonymsAndGroups ==
    (filtered.done /\ filtered.per_rank \in RANK_KEYWORDS)
        => LET level == RANK_LEVELS(CanonicalRank(filtered.per_rank))
           IN  /\ filtered.status = "ok"
               /\ \A i \in 1..Len(filtered.taxa) :
                     RANK_LEVELS(filtered.taxa[i].rank) = level
               /\ \A i \in 1..Len(taxon_list) :
                     RANK_LEVELS(taxon_list[i].rank) = level
                        => taxon_list[i].id \in ReturnedIds

\* the values of `per` the listing commands accept
RecognizedPer == RANK_KEYWORDS \cup {"leaf", "child", "main", "any"}

\* the answers to an unrecognized `per`
InvalidRankMessages == {"Specify per <rank-or-keyword>", "Specify per <rank> or per child"}

C16_SortByObs ==
    (filtered.done /\ filtered.fn = "filter_taxon_list"
     /\ filtered.per_rank \in {"leaf", "child"} /\ filtered.sort_by = "obs")
        => \A i \in 1..Len(filtered.taxa) : \A j \in (i + 1)..Len(filtered.taxa) :
              LET a == filtered.taxa[i]
                  b == filtered.taxa[j]
              IN  /\ RANK_LEVELS(a.rank) >= RANK_LEVELS(b.rank)
                  /\ RANK_LEVELS(a.rank) = RANK_LEVELS(b.rank)
                        => IF filtered.order = "asc" THEN ObsKey(a) <= ObsKey(b)
                           ELSE ObsKey(a) >= ObsKey(b)

\* C16 happens: two leaves of one rank level came back in ascending order of
\* count, the second with a descendant count, against the order of their names
C16_Witness ==
    /\ filtered.done /\ filtered.per_rank = "leaf"
    /\ filtered.sort_by = "obs" /\ filtered.order = "asc"
    /\ Len(filtered.taxa) = 2
    /\ RANK_LEVELS(filtered.taxa[1].rank) = RANK_LEVELS(filtered.taxa[2].rank)
    /\ filtered.taxa[2].has_desc
    /\ ObsKey(filtered.taxa[1]) < ObsKey(filtered.taxa[2])
    /\ filtered.taxa[1].name > filtered.taxa[2].name

\* the sequence back to front
Reverse(s) == [i \in 1..Len(s) |-> s[Len(s) + 1 - i]]

\* the rank levels of the returned nodes
ReturnedLevels == {RANK_LEVELS(filtered.taxa[i].rank) : i \in 1..Len(filtered.taxa)}

\* C17: sorting by name in descending order reverses the comparison of names
\* only.  A node of a coarser rank still comes before a node of a finer one,
\* as in ascending order, and within one rank level the names descend; so
\* with more than one rank level present the result is not the ascending
\* list read backwards.
C17_NameDescending ==
    (filtered.done /\ filtered.fn = "filter_taxon_list"
     /\ filtered.per_rank \in {"leaf", "child"}
     /\ filtered.sort_by = "name" /\ filtered.order = "desc")
        => /\ \A i \in 1..Len(filtered.taxa) : \A j \in (i + 1)..Len(filtered.taxa) :
                 LET a == filtered.taxa[i]
                     b == filtered.taxa[j]
                 IN  /\ RANK_LEVELS(a.rank) >= RANK_LEVELS(b.rank)
                     /\ RANK_LEVELS(a.rank) = RANK_LEVELS(b.rank) => a.name >= b.name
           /\ Cardinality(ReturnedLevels) > 1
                 => filtered.taxa # Reverse(SortByKey(filtered.taxa, "name", "asc"))

\* C17 happens: in descending name order a leaf of the coarser rank came back
\* before a leaf of the finer rank although its name is the smaller
C17_Witness ==
    /\ filtered.done /\ filtered.per_rank = "leaf"
    /\ filtered.sort_by = "name" /\ filtered.order = "desc"
    /\ Len(filtered.taxa) = 2
    /\ RANK_LEVELS(filtered.taxa[1].rank) > RANK_LEVELS(filtered.taxa[2].rank)
    /\ filtered.taxa[1].name < filtered.taxa[2].name

\* whether the record with id `a` is above the record t of the list
RECURSIVE IsAbove(_, _, _)
IsAbove(L, a, t) ==
    /\ t.parent # 0 /\ InList(L, t.parent)
    /\ (t.parent = a \/ IsAbove(L, a, ById(L, t.parent)))

\* the list is a chain in tree order: each record is the child of the one before
IsChain(L) == \A i \in 1..Len(L) : L[i].parent = (IF i = 1 THEN 0 ELSE L[i - 1].id)

\* the call includes the rank of every record of the list
AllRanksIncluded ==
    \/ filtered.per_rank = "any"
    \/ /\ filtered.per_rank = "main"
       /\ \A i \in 1..Len(taxon_list) :
              \/ taxon_list[i].rank \in Range(COMMON_RANKS)
              \/ filtered.with_taxon /\ taxon_list[i].rank = taxon_list[1].rank

\* C18: the "main", "any" and single-rank listings keep the depth-first tree
\* order whatever the sort key and order: every returned node comes after each
\* of its returned ancestors and no node is returned twice; and a chain given
\* in tree order whose ranks are all included comes back as given, every
\* taxon once.
C18_TreeOrderKept ==
    (filtered.done /\ filtered.status = "ok" /\ filtered.per_rank \notin {"leaf", "child"})
        => /\ \A i \in 1..Len(filtered.taxa) : \A j \in 1..Len(filtered.taxa) :
                 /\ IsAbove(taxon_list, filtered.taxa[i].id, filtered.taxa[j]) => i < j
                 /\ filtered.taxa[i].id = filtered.taxa[j].id => i = j
           /\ (IsChain(taxon_list) /\ AllRanksIncluded)
                 => /\ Len(filtered.taxa) = Len(taxon_list)
                    /\ \A i \in 1..Len(taxon_list) : filtered.taxa[i].id = taxon_list[i].id

\* how many of the returned nodes are above the returned node t
ReturnedAbove(t) ==
    Cardinality({j \in 1..Len(filtered.taxa) : IsAbove(taxon_list, filtered.taxa[j].id, t)})

\* C19: after a "main" or "any" pass the first returned node, the filtered
\* root, has indent_level 0 and every returned node's indent_level is its
\* depth in the filtered tree less that of the filtered root, that is the
\* number of returned nodes above it; no indent_level is negative.  The same
\* holds when the records are filtered a second time.
C19_IndentLevels ==
    (filtered.done /\ filtered.status = "ok" /\ filtered.per_rank \in {"main", "any"})
        => /\ filtered.taxa # <<>> => filtered.taxa[1].indent_level = 0
           /\ \A i \in 1..Len(filtered.taxa) :
                 /\ filtered.taxa[i].indent_level >= 0
                 /\ filtered.taxa[i].indent_level = ReturnedAbove(filtered.taxa[i])

\* C19 happens: a second "main" pass on a genus and its species beneath Life,
\* whose root is hidden, has left the genus at level 0 and the species at 1
C19_Witness ==
    /\ filtered.done /\ filtered.pass = 2 /\ filtered.per_rank = "main"
    /\ taxon_list[1].id = ROOT_TAXON_ID
    /\ Len(filtered.taxa) = 2
    /\ filtered.taxa[1].indent_level = 0 /\ filtered.taxa[2].indent_level = 1

\* the highest page index of the listing in the context
FinalPage ==
    IF formatter.per_page > 0 /\ formatter.taxa # <<>>
    THEN (Len(formatter.taxa) + formatter.per_page - 1) \div formatter.per_page - 1
    ELSE 0

\* C20: the summary footer is rendered on the final page only: a rendered
\* page p of the listing, and every page the formatter has cached, contains
\* the footer exactly when p is the listing's last page.
C20_FooterOnFinalPage ==
    ctx.has_formatter
        => /\ \A p \in 0..(Len(formatter.pages) - 1) :
                 formatter.pages[p + 1].footer <=> (p = FinalPage)
           /\ last.outcome = "page" => (last.response.footer <=> (ctx.page = FinalPage))

\* C20 happens: the middle page of a three-page listing was rendered without
\* the footer after the last page had been rendered with it
C20_Witness ==
    /\ ctx.has_formatter /\ FinalPage = 2 /\ Len(formatter.pages) = 3
    /\ last.cmd = "prev" /\ last.outcome = "page" /\ ctx.page = 1
    /\ ~last.response.footer /\ last.response.entries # <<>>
    /\ formatter.pages[3].footer

----------------------------------------------------------------------------
(* Page headers of the cached pages of a session's listing *)

\* the first taxon of page `page` of formatter f (NoTaxon for an empty page)
FirstOfPage(f, page) ==
    IF f.taxa # <<>> /\ f.with_taxa /\ get_page_of_taxa(f, page) # <<>>
    THEN get_page_of_taxa(f, page)[1] ELSE NoTaxon

\* whether taxon t, listed by f, has an ancestor of a displayed rank
HasDisplayedAncestor(f, t) ==
    \E i \in 1..Len(t.ancestors) :
        /\ t.ancestors[i].id # ROOT_TAXON_ID
        /\ t.ancestors[i].rank \in Range(included_ranks(f.per_rank))

\* C21: in a "main"/"any" listing a cached page has a breadcrumb header
\* exactly when its first taxon is not a top-level entry (indent level above
\* 0) and has an ancestor of a displayed rank, and the breadcrumb names only
\* ancestors of a displayed rank
C21_HeaderWhenNotTopLevel ==
    (ctx.has_formatter /\ formatter.per_rank \in {"main", "any"}) =>
        \A p \in 0..(Len(formatter.pages) - 1) :
            LET first == FirstOfPage(formatter, p)
                hdr == formatter.pages[p + 1].entries_header
            IN  /\ (hdr # <<>>) <=>
                       /\ first # NoTaxon
                       /\ fp_indent_level(formatter, first) > 0
                       /\ HasDisplayedAncestor(formatter, first)
                /\ \A i \in 1..Len(hdr) :
                       \E j \in 1..Len(first.ancestors) :
                           /\ first.ancestors[j].id = hdr[i]
                           /\ first.ancestors[j].rank
                                  \in Range(included_ranks(formatter.per_rank))

----------------------------------------------------------------------------
(* Specification of one listing's formatter: the formatter as constructed   *)
(* on a life list, the tail of Commands.life that renders the first page    *)
(* and sets the title, then format_page calls for any page in any order.    *)
(* taxon_list is the life list, filtered the filter's result as the         *)
(* constructor stored it, `last` the latest format_page call and its text,  *)
(* and `call` the arguments of the latest call with the text of the call    *)
(* before it (flag: that call had the same arguments).                      *)

\* longest chain Life > kingdom > family > ... drawn as a life list
MaxChain == 4

\* the `selected` arguments of format_page; -1 stands for None
SelectedArgs == -1..MaxPerPage

\* the life lists, policies and page sizes a formatter is constructed with
PageListings ==
    [list : {ChainList(n) : n \in 2..MaxChain} \cup {StarList(n) : n \in 2..MaxLifeList},
     per_rank : {"main", "any", "leaf"},
     per_page : 0..MaxPerPage]

\* the sections of the text format_page(page, selected) returns from formatter f
format_page(f, page, selected) == render_page(extend_pages(f, page), page, selected)

\* the text of a response without its "Page p/n" line
TextOf(r) == [header |-> r.header, entries_header |-> r.entries_header,
              entries |-> r.entries, footer |-> r.footer, selected |-> r.selected]

FormatCall(page, selected, same, before) ==
    [NoCall EXCEPT !.op = "format_page", !.arg = page, !.value = selected,
                   !.flag = same, !.result = <<before>>]

InitPages ==
    \E l \in PageListings :
    \E res \in {filter_taxon_list(l.list, l.per_rank, NoTaxon, 0, "", "")} :
        /\ taxon_list = l.list
        /\ filtered = [fn |-> "filter_taxon_list", per_rank |-> l.per_rank,
                       sort_by |-> "", order |-> "", with_taxon |-> FALSE,
                       done |-> TRUE, pass |-> 1, status |-> res.status,
                       taxa |-> res.taxa, ranks |-> res.ranks, tot |-> res.tot,
                       taxon_count |-> res.taxon_count]
        /\ formatter = LifeListFormatter(res.taxa, l.per_rank, l.per_page)
        /\ ctx = [has_formatter |-> FALSE, page |-> 0, per_page |-> l.per_page,
                  selected |-> 0]
        /\ last = NoLast
        /\ call = NoCall
        /\ source = NoSource

\* the tail of Commands.life: first_page = formatter.get_first_page(), the
\* title is put on the cached page 0 when first_page is not empty, and
\* _get_formatted_page(formatter, 0, 0) formats page 0 again
Commands_life_first_page ==
    /\ ~ctx.has_formatter
    /\ LET first_page == format_page(formatter, 0, 0)
           f1 == extend_pages(formatter, 0)
           f2 == IF rendered_nonempty(first_page)
                 THEN [f1 EXCEPT !.pages[1].header = "title"] ELSE f1
       IN  /\ ctx' = [ctx EXCEPT !.has_formatter = TRUE, !.page = 0, !.selected = 0]
           /\ formatter' = gfp_formatter(f2, 0)
           /\ call' = FormatCall(0, 0, TRUE, first_page)
           /\ last' = Record("format_page", 0, "page", gfp_response(f2, 0, 0, ""))
    /\ UNCHANGED <<source, taxon_list, filtered>>

\* formatter.format_page(page, selected), through _get_formatted_page
Format_page(page, selected) ==
    /\ ctx.has_formatter
    /\ page \in 0..last_page(formatter)
    /\ formatter' = gfp_formatter(formatter, page)
    /\ call' = FormatCall(page, selected, call.arg = page /\ call.value = selected,
                          TextOf(last.response))
    /\ last' = Record("format_page", page, "page",
                      gfp_response(formatter, page, selected, ""))
    /\ UNCHANGED <<ctx, source, taxon_list, filtered>>

NextPages ==
    \/ Commands_life_first_page
    \/ \E page \in 0..MaxLifeList : \E selected \in SelectedArgs :
          Format_page(page, selected)

SpecPages == InitPages /\ [][NextPages]_vars

\* the formatter as its constructor left it, before any page was formatted
AsConstructed == LifeListFormatter(filtered.taxa, formatter.per_rank, formatter.per_page)

\* C22: format_page(p, selected) returns the same text each time it is called
\* on a listing, whatever was formatted before: a call with the arguments of
\* the call before it returns the same text, the text is the one a formatter
\* just constructed on the same records returns when asked for p directly, and
\* entry i of the page cache is page i as such a formatter builds it
C22_RenderingIdempotent ==
    ctx.has_formatter =>
        /\ call.flag => TextOf(last.response) = call.result[1]
        /\ TextOf(last.response) = format_page(AsConstructed, call.arg, call.value)
        /\ \A i \in 0..(Len(formatter.pages) - 1) :
               formatter.pages[i + 1] = extend_pages(AsConstructed, i).pages[i + 1]

----------------------------------------------------------------------------
(* The rank filter with an explicit root: filter_taxon_list and             *)
(* filter_life_list called with a root_taxon_id, which may name no record   *)
(* of the list.  `call` records the root id the filter was called with.     *)

\* an id no record of a drawn list has
MissingId == MaxTaxa + 1

\* the root ids a call supplies
RootIds == {1, 2, MissingId}

\* the policies an explicit root is supplied with
RootCalls == [per_rank : {"child", "leaf", "main", "any", "species"}, root : RootIds]

RootedCall(c, fn, res) ==
    /\ filtered' = [fn |-> fn, per_rank |-> c.per_rank, sort_by |-> "", order |-> "",
                    with_taxon |-> FALSE, done |-> TRUE, pass |-> 1,
                    status |-> res.status, taxa |-> res.taxa, ranks |-> res.ranks,
                    tot |-> res.tot, taxon_count |-> res.taxon_count]
    /\ call' = [NoCall EXCEPT !.op = fn, !.arg = c.root]
    /\ UNCHANGED <<ctx, formatter, last, source, taxon_list>>

\* filter_taxon_list(taxon_list, per_rank, None, root_taxon_id)
Filter_taxon_list_rooted(c) ==
    /\ ~filtered.done
    /\ \E res \in {filter_taxon_list(taxon_list, c.per_rank, NoTaxon, c.root, "", "")} :
          RootedCall(c, "filter_taxon_list", res)

\* filter_life_list(life_list, per_rank, None, root_taxon_id), the list being
\* a life list: every record has both counts
Filter_life_list_rooted(c) ==
    /\ ~filtered.done
    /\ \A i \in 1..Len(taxon_list) : taxon_list[i].has_desc
    /\ c.per_rank # "child"
    /\ \E res \in {filter_life_list(taxon_list, c.per_rank, NoTaxon, c.root)} :
          RootedCall(c, "filter_life_list", res)

NextRoot ==
    \/ \E c \in RootCalls : Filter_taxon_list_rooted(c)
    \/ \E c \in RootCalls : Filter_life_list_rooted(c)

SpecRoot == InitFilter /\ [][NextRoot]_vars

\* C23: when the root id supplied matches no record of the taxon list, the
\* filter fails with an error that reaches the caller: it returns no listing,
\* neither one built on another root nor an empty one
C23_MissingRootFails ==
    (filtered.done /\ call.op # "" /\ ~InList(taxon_list, call.arg)) =>
        filtered.status = "error"

\* C24: formatting pages leaves the taxon records as they were: the records
\* the formatter holds, their ancestors lists included, are the ones the
\* filter returned to its constructor
C24_RecordsReadOnly ==
    formatter.taxa = filtered.taxa

\* C25: in the text of a page exactly the entry whose index within the page
\* is `selected` is highlighted; when `selected` is None or is no index of an
\* entry of the page, no entry is
C25_OnlySelectedHighlighted ==
    (ctx.has_formatter /\ call.op = "format_page") =>
        LET n == Len(last.response.entries)
        IN  /\ \A i \in 0..(n - 1) : (last.response.selected = i) <=> (call.value = i)
            /\ call.value \notin 0..(n - 1) => last.response.selected = -1

\* a page of two entries is formatted with its second entry selected, and
\* that entry is the highlighted one
C25_Witness ==
    /\ call.op = "format_page" /\ call.value = 1
    /\ Len(last.response.entries) = 2 /\ last.response.selected = 1

----------------------------------------------------------------------------
(* PageSource._prepare_once of menus/source.py, called by the tasks of one  *)
(* event loop on the same page source.  The source is a plain PageSource,   *)
(* whose prepare() returns at once, or an AsyncIteratorPageSource, whose    *)
(* prepare() awaits the iterator per_page + 1 times.  It carries the flag   *)
(* self.__prepare (prepared), the number of times prepare() was entered,    *)
(* how many elements its cache holds, how many the iterator still has, and  *)
(* _exhausted.  `call` holds each task's position (idle, or suspended in    *)
(* prepare() at `await it.__anext__()`), how many calls it has made and how *)
(* many iterations its _iterate has left.  A task runs until it awaits      *)
(* something that suspends.                                                 *)

\* the tasks that use one page source
MaxTasks == 2
\* _prepare_once calls each task makes
MaxPrepareCalls == 2
\* elements the asynchronous iterator yields at most
MaxItems == 3

Tasks == 1..MaxTasks

InitPrepare ==
    /\ \E async \in BOOLEAN : \E pp \in 1..MaxSourcePerPage : \E items \in 0..MaxItems :
          source = [async |-> async, prepared |-> FALSE, prepare_calls |-> 0,
                    cache |-> 0, remaining |-> items, exhausted |-> FALSE]
                   @@ [NoSource EXCEPT !.per_page = pp]
    /\ call = [op |-> "_prepare_once", pc |-> [t \in Tasks |-> "idle"],
               calls |-> [t \in Tasks |-> 0], todo |-> [t \in Tasks |-> 0]] @@ NoCall
    /\ ctx = [has_formatter |-> FALSE, page |-> 0, per_page |-> 0, selected |-> 0]
    /\ formatter = NoFormatter
    /\ last = NoLast
    /\ taxon_list = <<>>
    /\ filtered = NoFilter

\* task t calls _prepare_once() and runs to its first suspension: the flag is
\* read; without it prepare() is entered.  PageSource.prepare returns at once
\* and the flag is set; AsyncIteratorPageSource.prepare starts
\* _iterate(per_page + 1) and suspends at its first await
Prepare_once(t) ==
    /\ call.pc[t] = "idle"
    /\ call.calls[t] < MaxPrepareCalls
    /\ IF source.prepared
       THEN /\ call' = [call EXCEPT !.calls[t] = @ + 1]
            /\ UNCHANGED source
       ELSE /\ source' = [source EXCEPT !.prepare_calls = @ + 1,
                                        !.prepared = ~source.async]
            /\ call' = [call EXCEPT !.calls[t] = @ + 1,
                                    !.pc[t] = IF source.async THEN "in_prepare" ELSE "idle",
                                    !.todo[t] = IF source.async THEN source.per_page + 1 ELSE 0]
    /\ UNCHANGED <<ctx, formatter, last, taxon_list, filtered>>

\* the event loop resumes task t in _iterate: the awaited __anext__ gives an
\* element, which is cached, or raises StopAsyncIteration; after the last
\* iteration prepare() returns and _prepare_once sets the flag
Iterate_resumes(t) ==
    /\ call.pc[t] = "in_prepare"
    /\ LET stop == source.remaining = 0
           finished == stop \/ call.todo[t] = 1
       IN  /\ source' = [source EXCEPT
                            !.exhausted = @ \/ stop,
                            !.cache = IF stop THEN @ ELSE @ + 1,
                            !.remaining = IF stop THEN @ ELSE @ - 1,
                            !.prepared = @ \/ finished]
           /\ call' = [call EXCEPT !.pc[t] = IF finished THEN "idle" ELSE "in_prepare",
                                   !.todo[t] = IF finished THEN 0 ELSE @ - 1]
    /\ UNCHANGED <<ctx, formatter, last, taxon_list, filtered>>

NextPrepare ==
    \/ \E t \in Tasks : Prepare_once(t)
    \/ \E t \in Tasks : Iterate_resumes(t)

SpecPrepare == InitPrepare /\ [][NextPrepare]_vars

\* C26: over any sequence of _prepare_once() calls on a page source, from one
\* task or from tasks that interleave at its await, prepare() is entered at
\* most once, and exactly once as soon as a call has been made
C26_PrepareOnce ==
    /\ source.prepare_calls <= 1
    /\ (\E t \in Tasks : call.calls[t] > 0) => source.prepare_calls = 1

----------------------------------------------------------------------------
(* The iNat defaults of a Context: constants.py and Context of              *)
(* commands/__init__.py.  A value is a number, 0 standing for None (and for *)
(* every falsy value: the code tests `if not default`); a locale is a       *)
(* number too, and True is 1.  ctx carries the author's settings, `call`    *)
(* the method called, its argument and what it returned.                    *)

\* an author's place ids and languages are 0..MaxSetting
MaxSetting == 2

None == 0

\* INAT_USER_DEFAULT_PARAMS: Dronefly user param name -> iNat API param name
INAT_USER_DEFAULT_PARAMS == [inat_place_id |-> "preferred_place_id", inat_lang |-> "locale"]

\* INAT_DEFAULTS = {**INAT_USER_DEFAULTS, "all_names": True}
INAT_DEFAULTS == [locale |-> None, preferred_place_id |-> 1, all_names |-> 1]

\* dict.get(key): None for a key the dict does not have
DictGet(d, key) == IF key \in DOMAIN d THEN d[key] ELSE None

\* the parameter names asked for: the two user params, an attribute of User
\* that is no user param, an iNat API param name and a name that is nothing
DefaultParams == {"inat_place_id", "inat_lang", "inat_user_id", "preferred_place_id", "bogus"}

\* Context.get_inat_user_default(inat_param)
get_inat_user_default(c, inat_param) ==
    IF inat_param \notin DOMAIN INAT_USER_DEFAULT_PARAMS THEN None
    ELSE LET default == IF c.has_author THEN DictGet(c.author, inat_param) ELSE None
         IN  IF default = None THEN DictGet(INAT_DEFAULTS, inat_param) ELSE default

\* Context.get_inat_defaults()
get_inat_defaults(c) ==
    [inat_param \in DOMAIN INAT_DEFAULTS |->
        IF \E user_param \in DOMAIN INAT_USER_DEFAULT_PARAMS :
               /\ INAT_USER_DEFAULT_PARAMS[user_param] = inat_param
               /\ get_inat_user_default(c, user_param) # None
        THEN get_inat_user_default(c,
                 CHOOSE user_param \in DOMAIN INAT_USER_DEFAULT_PARAMS :
                     INAT_USER_DEFAULT_PARAMS[user_param] = inat_param)
        ELSE INAT_DEFAULTS[inat_param]]

\* a Context as constructed: its author (a User with its settings, or None)
InitDefaults ==
    /\ \E has_author \in BOOLEAN :
       \E author \in [id : {0}, inat_user_id : 0..1, inat_place_id : 0..MaxSetting,
                       inat_lang : 0..MaxSetting] :
          /\ ~has_author => author = [id |-> 0, inat_user_id |-> 0, inat_place_id |-> 0,
                                       inat_lang |-> 0]
          /\ ctx = [has_author |-> has_author, author |-> author]
                   @@ [has_formatter |-> FALSE, page |-> 0, per_page |-> 0, selected |-> 0]
    /\ call = NoCall
    /\ formatter = NoFormatter
    /\ last = NoLast
    /\ source = NoSource
    /\ taxon_list = <<>>
    /\ filtered = NoFilter

\* ctx.get_inat_user_default(inat_param)
Get_inat_user_default(inat_param) ==
    /\ call' = [param |-> inat_param]
               @@ [NoCall EXCEPT !.op = "get_inat_user_default",
                                 !.value = get_inat_user_default(ctx, inat_param)]
    /\ UNCHANGED <<ctx, formatter, last, source, taxon_list, filtered>>

\* ctx.get_inat_defaults()
Get_inat_defaults ==
    /\ call' = [param |-> ""]
               @@ [NoCall EXCEPT !.op = "get_inat_defaults",
                                 !.result = <<get_inat_defaults(ctx)>>]
    /\ UNCHANGED <<ctx, formatter, last, source, taxon_list, filtered>>

NextDefaults ==
    \/ \E inat_param \in DefaultParams : Get_inat_user_default(inat_param)
    \/ Get_inat_defaults

SpecDefaults == InitDefaults /\ [][NextDefaults]_vars

\* the value the documented precedence gives a user param: the author's own
\* value when set, otherwise the global default of the iNat API param it maps to
PrecedenceDefault(c, user_param) ==
    IF c.has_author /\ c.author[user_param] # None THEN c.author[user_param]
    ELSE INAT_DEFAULTS[INAT_USER_DEFAULT_PARAMS[user_param]]

\* C27: get_inat_user_default(param) returns, for a param of
\* INAT_USER_DEFAULT_PARAMS, the author's own value when the author has one
\* set and otherwise the global default of the iNat API parameter the param
\* maps to; for any other param it returns None
C27_UserDefaultPrecedence ==
    call.op = "get_inat_user_default" =>
        call.value = IF call.param \in DOMAIN INAT_USER_DEFAULT_PARAMS
                     THEN PrecedenceDefault(ctx, call.param) ELSE None

----------------------------------------------------------------------------
(* The navigation state of a session *)

\* C28: whenever a listing is active, whatever listing and navigation
\* commands have run and whether they succeeded or were rejected, the current
\* page exists: 0 <= ctx.page <= ctx.page_formatter.last_page()
C28_CurrentPageExists ==
    ctx.has_formatter => (0 <= ctx.page /\ ctx.page <= last_page(formatter))

\* `prev` on the first page of a listing of several pages has wrapped to the
\* last page
C28_Witness ==
    /\ ctx.has_formatter /\ last.cmd = "prev" /\ last.outcome = "page"
    /\ last_page(formatter) > 0 /\ ctx.page = last_page(formatter)

\* C29: whenever a listing is active the selection denotes an existing entry:
\* ctx.selected is an index into get_page_of_taxa(ctx.page), also when the
\* filtered listing has no entries
C29_SelectionExists ==
    ctx.has_formatter =>
        (0 <= ctx.selected /\ ctx.selected < Len(get_page_of_taxa(formatter, ctx.page)))

----------------------------------------------------------------------------
(* The iNat client shared by the sessions: iNatClient of clients/inat.py,   *)
(* the class-level default of Commands.inat_client.  Each session has its   *)
(* own Context; a command enters `with inat_client.set_ctx(ctx)`, issues    *)
(* requests through asyncify (the request is handed to the executor and the *)
(* command's task suspends until it is done) and leaves the block.  `call`  *)
(* holds the client's ctx attribute (the session it belongs to, 0 for       *)
(* None), each session's position, the defaults its last request was given  *)
(* by add_client_settings, and how many requests it has issued.             *)

\* the sessions that share the client
MaxSessions == 2
\* requests a session issues
MaxRequests == 2

Sessions == 1..MaxSessions

\* the Context of session s: its author prefers place s
SessionContext(s) ==
    [has_author |-> TRUE,
     author |-> [id |-> s, inat_user_id |-> s, inat_place_id |-> s, inat_lang |-> None]]

InitClient ==
    /\ call = [op |-> "set_ctx", client_ctx |-> 0, pc |-> [s \in Sessions |-> "idle"],
               used |-> [s \in Sessions |-> <<>>],
               requests |-> [s \in Sessions |-> 0]] @@ NoCall
    /\ ctx = [has_formatter |-> FALSE, page |-> 0, per_page |-> 0, selected |-> 0]
    /\ formatter = NoFormatter
    /\ last = NoLast
    /\ source = NoSource
    /\ taxon_list = <<>>
    /\ filtered = NoFilter

\* the event loop runs one task at a time: session s can take a step on the
\* loop only while every other session is between commands or suspended at
\* the await of a request
LoopFree(s) ==
    \A o \in Sessions \ {s} : call.pc[o] # "in_block"

\* a command of session s enters `with self.inat_client.set_ctx(ctx) as client`:
\* set_ctx stores the context in the client
Set_ctx(s) ==
    /\ call.pc[s] = "idle"
    /\ LoopFree(s)
    /\ call.requests[s] < MaxRequests
    /\ call' = [call EXCEPT !.client_ctx = s, !.pc[s] = "in_block"]
    /\ UNCHANGED <<ctx, formatter, last, source, taxon_list, filtered>>

\* the command calls an asyncified client method: async_wrapper hands the
\* request to the executor and the task suspends at the await
Async_wrapper(s) ==
    /\ call.pc[s] = "in_block"
    /\ call.requests[s] < MaxRequests
    /\ call' = [call EXCEPT !.pc[s] = "in_executor"]
    /\ UNCHANGED <<ctx, formatter, last, source, taxon_list, filtered>>

\* the executor thread runs the request of session s: add_client_settings
\* takes the defaults from the client's ctx as it is now
Add_client_settings(s) ==
    /\ call.pc[s] = "in_executor"
    /\ call' = [call EXCEPT
                   !.used[s] = <<IF call.client_ctx = 0 THEN INAT_DEFAULTS
                                 ELSE get_inat_defaults(SessionContext(call.client_ctx))>>,
                   !.requests[s] = @ + 1,
                   !.pc[s] = "done"]
    /\ UNCHANGED <<ctx, formatter, last, source, taxon_list, filtered>>

\* the future is done: the loop resumes the task of session s inside its
\* with block
Await_returns(s) ==
    /\ call.pc[s] = "done"
    /\ LoopFree(s)
    /\ call' = [call EXCEPT !.pc[s] = "in_block"]
    /\ UNCHANGED <<ctx, formatter, last, source, taxon_list, filtered>>

\* the command leaves the with block: set_ctx has nothing after its yield
Leave_ctx(s) ==
    /\ call.pc[s] = "in_block"
    /\ call' = [call EXCEPT !.pc[s] = "idle"]
    /\ UNCHANGED <<ctx, formatter, last, source, taxon_list, filtered>>

NextClient ==
    \/ \E s \in Sessions : Set_ctx(s)
    \/ \E s \in Sessions : Async_wrapper(s)
    \/ \E s \in Sessions : Add_client_settings(s)
    \/ \E s \in Sessions : Await_returns(s)
    \/ \E s \in Sessions : Leave_ctx(s)

SpecClient == InitClient /\ [][NextClient]_vars

\* C30: every request a command of session s issues between entering and
\* leaving `with inat_client.set_ctx(ctx)` is given the defaults of the
\* session's own context, whatever the other sessions do with the client
\* meanwhile
C30_NoContextLeak ==
    \A s \in Sessions :
        call.used[s] # <<>> => call.used[s][1] = get_inat_defaults(SessionContext(s))
====
